---- MODULE Spec2Model ----
(***************************************************************************)
(* Gravity model calibration (normits_demand/distribution/gravity_model.py) *)
(* and its cost utilities (normits_demand/cost/utils.py).                   *)
(*                                                                         *)
(* Matrices are functions over Cells with integer values.  Real-valued     *)
(* quantities are kept exact where a claim depends on them (band shares    *)
(* are numerator/denominator pairs) and in fixed point elsewhere.          *)
(***************************************************************************)
EXTENDS Integers, Sequences, FiniteSets, TLC

(***************************************************************************)
(* Bounds of the model.                                                    *)
(***************************************************************************)
\* the optimizer's budget of residual evaluations (grav_max_iters / max_nfev)
MaxNfev == 2

(***************************************************************************)
(* Input domains.                                                          *)
(***************************************************************************)
Zones == 1..2
Cells == Zones \X Zones
\* Python's None; an optional integer v is held as Some(v)
None == <<>>
Some(v) == <<v>>
TheVal(s) == s[1]

\* MultiTLDGravityModelCalibrator._ignore_calib_area_value
IgnoreCalibAreaValue == -1

\* queue.Queue(1): the capacity of every handoff channel
QueueMaxSize == 1

Mat(a, b, c, d) == [x \in Cells |->
    IF x = <<1, 1>> THEN a ELSE IF x = <<1, 2>> THEN b
    ELSE IF x = <<2, 1>> THEN c ELSE d]

\* label matrices handed to the coordinator: two areas and an ignore cell,
\* two areas covering every cell, one area and an ignore cell
CalibrationMatrices == { Mat(1, 2, 2, -1), Mat(1, 1, 2, 2), Mat(1, 1, 1, -1) }

CostMatrixInput == Mat(1, 3, 4, 2)
RowTargetsInput == [i \in Zones |-> IF i = 1 THEN 40 ELSE 60]
ColTargetsInput == [j \in Zones |-> 50]

\* cost function parameter names, in the order the cost function declares
kw_order == <<"alpha", "beta">>
ParamNames == {kw_order[i] : i \in 1..Len(kw_order)}

\* the trial vectors the least-squares optimizer may evaluate
TrialArgs == { <<0, 1>>, <<1, 2>> }

(***************************************************************************)
(* Helpers.                                                                *)
(***************************************************************************)
\* TLC keeps a function constructor unevaluated; Eager makes it a table
Eager(f) == f @@ <<>>

RECURSIVE SumOver(_, _)
SumOver(f, S) ==
    IF S = {} THEN 0
    ELSE LET x == CHOOSE y \in S : TRUE IN f[x] + SumOver(f, S \ {x})

RECURSIVE SortedSeq(_)
SortedSeq(S) ==
    IF S = {} THEN <<>>
    ELSE LET m == CHOOSE x \in S : \A y \in S : x <= y
         IN <<m>> \o SortedSeq(S \ {m})

SeqToSet(s) == {s[i] : i \in 1..Len(s)}

RECURSIVE Pow(_, _)
Pow(b, e) == IF e <= 0 THEN 1 ELSE b * Pow(b, e - 1)

MatZeros == [c \in Cells |-> 0]
MatAdd(a, b) == Eager([c \in Cells |-> a[c] + b[c]])
MatMul(a, b) == Eager([c \in Cells |-> a[c] * b[c]])
MatSum(m) == SumOver(m, Cells)
RowSums(m) == Eager([i \in Zones |-> SumOver([j \in Zones |-> m[<<i, j>>]], Zones)])
ColSums(m) == Eager([j \in Zones |-> SumOver([i \in Zones |-> m[<<i, j>>]], Zones)])
VecAdd(a, b) == Eager([i \in Zones |-> a[i] + b[i]])
VecZeros == [i \in Zones |-> 0]

(***************************************************************************)
(* furness.doubly_constrained_furness (section 4.1 of the specification):  *)
(* scale rows to the row targets, then columns to the column targets,      *)
(* measure the error of the margins, stop below tol or at max_iters.       *)
(* 0/0 is 0.  The error is kept as the sum of squared margin errors.       *)
(***************************************************************************)
ScaleRows(m, row_targets) ==
    LET rs == RowSums(m)
    IN Eager([c \in Cells |-> IF rs[c[1]] = 0 THEN 0
                              ELSE (m[c] * row_targets[c[1]]) \div rs[c[1]]])

ScaleCols(m, col_targets) ==
    LET cs == ColSums(m)
    IN Eager([c \in Cells |-> IF cs[c[2]] = 0 THEN 0
                              ELSE (m[c] * col_targets[c[2]]) \div cs[c[2]]])

MarginError(m, row_targets, col_targets) ==
    LET rs == RowSums(m)
        cs == ColSums(m)
    IN SumOver([i \in Zones |-> (rs[i] - row_targets[i]) * (rs[i] - row_targets[i])], Zones)
       + SumOver([j \in Zones |-> (cs[j] - col_targets[j]) * (cs[j] - col_targets[j])], Zones)

RECURSIVE FurnessLoop(_, _, _, _, _, _)
FurnessLoop(m, row_targets, col_targets, tol, max_iters, i) ==
    IF i >= max_iters
    THEN [matrix |-> m, completed_iters |-> i,
          achieved_rmse |-> MarginError(m, row_targets, col_targets)]
    ELSE LET m2 == ScaleCols(ScaleRows(m, row_targets), col_targets)
             err == MarginError(m2, row_targets, col_targets)
         IN IF err <= tol
            THEN [matrix |-> m2, completed_iters |-> i + 1, achieved_rmse |-> err]
            ELSE FurnessLoop(m2, row_targets, col_targets, tol, max_iters, i + 1)

doubly_constrained_furness(seed_vals, row_targets, col_targets, tol, max_iters) ==
    FurnessLoop(seed_vals, row_targets, col_targets, tol, max_iters, 0)

(***************************************************************************)
(* The cost function (external collaborator, section 3): a tanner-like     *)
(* propensity cost^alpha * decay(beta, cost) on the integer grid.          *)
(* With alpha = 0 the propensity of a zero cost is not zero.               *)
(***************************************************************************)
DecayOf(c, beta) == IF 10 - beta * c < 0 THEN 0 ELSE 10 - beta * c

CostFunctionCalculate(cost, kwargs) ==
    Eager([c \in Cells |-> Pow(cost[c], kwargs.alpha) * DecayOf(cost[c], kwargs.beta)])

\* cost_function.validate_params: every declared name present, no extras
ValidateParams(params) == DOMAIN params = ParamNames

(***************************************************************************)
(* Band shares are exact: num[i] / den.                                    *)
(***************************************************************************)
SeqSum(s) == SumOver(s, DOMAIN s)

\* cost_utils.calculate_cost_distribution: numpy.histogram of the costs over
\* bin_edges weighted by matrix (every bin is half open, the last one closed),
\* normalised, or all zeros when the weights sum to zero
InBin(c, bin_edges, b) ==
    /\ bin_edges[b] <= c
    /\ IF b = Len(bin_edges) - 1 THEN c <= bin_edges[b + 1] ELSE c < bin_edges[b + 1]

Histogram(a, bins, weights) ==
    Eager([b \in 1..(Len(bins) - 1) |->
        SumOver([c \in Cells |-> IF InBin(a[c], bins, b) THEN weights[c] ELSE 0], Cells)])

\* a variant that normalises by the total of the whole matrix
CostDistributionOfMatrixTotal(matrix, cost_matrix, bin_edges) ==
    LET distribution == Histogram(cost_matrix, bin_edges, matrix)
    IN IF MatSum(matrix) = 0
       THEN [num |-> [b \in DOMAIN distribution |-> 0], den |-> 1]
       ELSE [num |-> distribution, den |-> MatSum(matrix)]

calculate_cost_distribution(matrix, cost_matrix, bin_edges) ==
    LET distribution == Histogram(cost_matrix, bin_edges, matrix)
    IN IF SeqSum(distribution) = 0
       THEN [num |-> [b \in DOMAIN distribution |-> 0], den |-> 1]
       ELSE [num |-> distribution, den |-> SeqSum(distribution)]

\* a - b of two share vectors
ShareDiff(a, b) ==
    [num |-> Eager([i \in DOMAIN a.num |-> a.num[i] * b.den - b.num[i] * a.den]),
     den |-> a.den * b.den]

\* math_utils.curve_convergence (section 4.3, step 3): the coefficient of
\* determination of achieved against target, floored at zero, in hundredths
curve_convergence(target, achieved) ==
    LET n == Len(target.num)
        res == ShareDiff(achieved, target)
        ss_res == SumOver([i \in 1..n |-> res.num[i] * res.num[i]], 1..n)
        tsum == SeqSum(target.num)
        ss_tot == SumOver([i \in 1..n |->
                     (n * target.num[i] - tsum) * (n * target.num[i] - tsum)], 1..n)
        \* ss_res / (ad*td)^2 over ss_tot / (n*td)^2
        lost == IF ss_tot = 0 THEN 100
                ELSE (100 * ss_res * n * n) \div (achieved.den * achieved.den * ss_tot)
    IN IF lost >= 100 THEN 0 ELSE 100 - lost

(***************************************************************************)
(* GravityModelBase: the calibrator object is a record of its attributes.  *)
(***************************************************************************)
\* the fixed-point unit of a perceived factor: np.ones_like is FactorUnit
FactorUnit == 100

\* GravityModelBase._update_tcd: ave_km defaults to min, band_share = trips / sum
update_tcd(tcd) ==
    [bands |-> [i \in DOMAIN tcd |->
                   [tcd[i] EXCEPT !.ave_km = IF tcd[i].ave_km = 0 THEN tcd[i].min ELSE @]],
     band_share |-> [num |-> [i \in DOMAIN tcd |-> tcd[i].trips],
                     den |-> SeqSum([i \in DOMAIN tcd |-> tcd[i].trips])]]

\* GravityModelBase._get_tcd_bin_edges
get_tcd_bin_edges(tcd) == <<tcd[1].min>> \o [i \in DOMAIN tcd |-> tcd[i].max]

\* GravityModelBase.__init__ (the attribute block)
GravityModelBaseInit(cost_matrix, tcd, running_log_path, log_file) ==
    [cost_matrix |-> cost_matrix,
     target_cost_distribution |-> update_tcd(tcd),
     tcd_bin_edges |-> get_tcd_bin_edges(tcd),
     running_log_path |-> running_log_path,
     log_file |-> log_file,
     loop_num |-> -1,
     jacobian_mats |-> None,
     perceived_factors |-> None,
     initial_cost_params |-> None,
     initial_convergence |-> None,
     optimal_cost_params |-> None,
     achieved_band_share |-> None,
     achieved_convergence |-> None,
     achieved_residuals |-> None,
     achieved_distribution |-> None]

\* GravityModelBase._initialise_calibrate_params
initialise_calibrate_params(o) ==
    [o EXCEPT !.loop_num = 1,
              !.initial_cost_params = None,
              !.initial_convergence = None,
              !.perceived_factors = [c \in Cells |-> FactorUnit]]

\* GravityModelBase._cost_params_to_kwargs
cost_params_to_kwargs(args) ==
    Eager([k \in ParamNames |-> args[CHOOSE i \in 1..Len(kw_order) : kw_order[i] = k]])

\* GravityModelBase._order_cost_params
order_cost_params(params) == [i \in 1..Len(kw_order) |-> params[kw_order[i]]]

\* GravityModelBase._apply_perceived_factors
apply_perceived_factors(o, cost_matrix) ==
    Eager([c \in Cells |-> (cost_matrix[c] * o.perceived_factors[c]) \div FactorUnit])

\* GravityModelBase._gravity_function up to the call of gravity_furness:
\* the seed matrix and the matrices kept for the Jacobian
GravityPrepare(o, cost_args, diff_step) ==
    LET cost_kwargs == cost_params_to_kwargs(cost_args)
        cost_matrix == apply_perceived_factors(o, o.cost_matrix)
        init_matrix == CostFunctionCalculate(cost_matrix, cost_kwargs)
    IN [o EXCEPT !.jacobian_mats =
           [base |-> init_matrix,
            adj |-> Eager([p \in ParamNames |->
                       CostFunctionCalculate(cost_matrix,
                           [cost_kwargs EXCEPT ![p] = @ + @ * diff_step])]),
            final |-> None]]

\* the row appended to the running log by one residual evaluation
LogRow(o, cost_kwargs, result, convergence) ==
    [loop_number |-> o.loop_num, params |-> cost_kwargs,
     furness_iters |-> result.completed_iters,
     furness_rmse |-> result.achieved_rmse, bs_con |-> convergence]

\* file_ops.safe_dataframe_to_csv(mode='a', header=not exists): the file at
\* running_log_path is a sequence of lines once it exists
HeaderRow == [header |-> kw_order]
NoFile == [exists |-> FALSE, lines |-> <<>>]

\* a variant that opens the file for writing instead of appending
WriteLog(log_file, row) == [exists |-> TRUE, lines |-> <<HeaderRow, row>>]

AppendLog(log_file, row) ==
    IF ~log_file.exists
    THEN [exists |-> TRUE, lines |-> <<HeaderRow, row>>]
    ELSE [log_file EXCEPT !.lines = Append(@, row)]

\* a variant in which every append to the log fails
LogAppendFails(o) == TRUE

\* GravityModelBase._gravity_function after gravity_furness has returned;
\* os.path.exists(None) raises TypeError before anything is stored
GravityRaises(o) == o.running_log_path = None

GravityFinish(o, cost_args, result) ==
    LET cost_kwargs == cost_params_to_kwargs(cost_args)
        matrix == result.matrix
        achieved_band_shares ==
            calculate_cost_distribution(matrix, o.cost_matrix, o.tcd_bin_edges)
        target_band_shares == o.target_cost_distribution.band_share
        convergence == curve_convergence(target_band_shares, achieved_band_shares)
        achieved_residuals == ShareDiff(target_band_shares, achieved_band_shares)
        o1 == [o EXCEPT !.jacobian_mats.final = matrix]
    IN IF GravityRaises(o) THEN o1
       ELSE [o1 EXCEPT
               !.log_file = AppendLog(@, LogRow(o, cost_kwargs, result, convergence)),
               !.loop_num = @ + 1,
               !.achieved_band_share = achieved_band_shares,
               !.achieved_convergence = Some(convergence),
               !.achieved_residuals = achieved_residuals,
               !.achieved_distribution = matrix,
               !.initial_cost_params = IF @ = None THEN cost_kwargs ELSE @,
               !.initial_convergence = IF @ = None THEN Some(convergence) ELSE @]

\* GravityModelBase._jacobian_function: the request made for one cost parameter
JacobianSeed(o, cost_param) ==
    LET final == o.jacobian_mats.final
        base == o.jacobian_mats.base
        furness_mat == Eager([c \in Cells |->
            IF base[c] = 0 THEN 0
            ELSE (o.jacobian_mats.adj[cost_param][c] * final[c]) \div base[c]])
        total == MatSum(furness_mat)
    IN Eager([c \in Cells |-> IF total = 0 THEN 0
                              ELSE (MatSum(final) * furness_mat[c]) \div total])

JacobianRequest(o, cost_param) ==
    [matrix |-> JacobianSeed(o, cost_param),
     row_targets |-> RowSums(o.jacobian_mats.final),
     col_targets |-> ColSums(o.jacobian_mats.final)]

\* one column of the Jacobian: (achieved - perturbed) / (parameter * diff_step)
JacobianColumn(o, cost_args, cost_param, diff_step, result) ==
    LET achieved_band_shares ==
            calculate_cost_distribution(result.matrix, o.cost_matrix, o.tcd_bin_edges)
    IN [residuals |-> ShareDiff(o.achieved_band_share, achieved_band_shares),
        cost_step |-> cost_params_to_kwargs(cost_args)[cost_param] * diff_step]

(***************************************************************************)
(* Inputs of the multi-area coordinator.                                   *)
(***************************************************************************)
Band(lo, hi, trips) == [min |-> lo, max |-> hi, trips |-> trips, ave_km |-> 0]

\* target_cost_distributions: two bands per area
TargetCostDistributionsInput(area_id) ==
    IF area_id = 1 THEN <<Band(0, 3, 2), Band(3, 5, 3)>>
    ELSE <<Band(0, 3, 3), Band(3, 5, 1)>>

\* furness_tol (as a sum of squared margin errors) and furness_max_iters
FurnessInput == [furness_tol |-> 2, furness_max_iters |-> 4]

\* JacobianFurnessThread(furness_tol=1e-6, furness_max_iters=50)
JacobianFurnessTol == 0
JacobianFurnessMaxIters == 50

\* diff_step: the relative step of the Jacobian perturbation, on the integer grid
DiffStepInput == 1

LogPath == [dir_name |-> "out", fname |-> "log.csv"]
RunningLogPaths == {None, LogPath}

InitParamsInputs == { [alpha |-> 1, beta |-> 1], [alpha |-> 1] }

Furnessers == {"gravity", "jacobian"}

VARIABLES
    \* MultiTLDGravityModelCalibrator: attributes and the arguments of calibrate
    calibration_matrix, calib_areas, running_log_path, init_params,
    estimate_init_params, calibrate_params,
    \* the constructor's arguments that are checked: the keys of
    \* calibration_naming and target_cost_distributions, and whether the
    \* directory of the log path exists
    ctor_args,
    \* the caller of calibrate: where it is and how calibrate ended
    c_pc, c_idx, c_outcome,
    \* _threaded_calibrate: masks and the handoff channels, [furnesser][area]
    area_mats, putter_qs, getter_qs,
    \* FurnessThreadBase.run_target, per furnesser
    f_pc, need_area_keys, queue_data, seed_mat, furness_out, furnessed_mats, f_idx,
    \* SingleTLDCalibratorThread, per area
    t_pc, t_obj, cost_args, opt_x, nfev, t_final, jac_i, jacobian, t_error,
    \* history: what was put on and taken off the channels, and each furness run
    sent, taken, round_log, recv,
    \* GravityModelCalibrator: the constructor's and calibrate's arguments
    use_perceived_factors, target_convergence, gm_init_params,
    gm_estimate_init_params, gm_calibrate_params,
    \* the GravityModelCalibrator object, and where calibrate is
    gm, gm_pc, gm_pass, gm_x0, gm_outcome, gm_warnings,
    \* scipy.optimize.least_squares within one _calibrate
    gm_args, gm_opt_x, gm_nfev, gm_final, gm_jacobian,
    \* history: every residual evaluation, and the factor matrix that
    \* _calculate_perceived_factors produced
    gm_evals, gm_computed,
    \* a call of a module-level function: its name, its arguments, its outcome
    call

vars == <<calibration_matrix, calib_areas, running_log_path, init_params,
          estimate_init_params, calibrate_params, ctor_args, c_pc, c_idx, c_outcome,
          area_mats, putter_qs, getter_qs,
          f_pc, need_area_keys, queue_data, seed_mat, furness_out, furnessed_mats, f_idx,
          t_pc, t_obj, cost_args, opt_x, nfev, t_final, jac_i, jacobian, t_error,
          sent, taken, round_log, recv,
          use_perceived_factors, target_convergence, gm_init_params,
          gm_estimate_init_params, gm_calibrate_params,
          gm, gm_pc, gm_pass, gm_x0, gm_outcome, gm_warnings,
          gm_args, gm_opt_x, gm_nfev, gm_final, gm_jacobian, gm_evals, gm_computed,
          call>>

\* the variables of the single-area calibrator; no method of a calibrator
\* touches the call of a module-level function
single_input_vars == <<use_perceived_factors, target_convergence, gm_init_params,
                       gm_estimate_init_params, gm_calibrate_params, call>>
single_vars == <<single_input_vars, gm, gm_pc, gm_pass, gm_x0, gm_outcome, gm_warnings,
                 gm_args, gm_opt_x, gm_nfev, gm_final, gm_jacobian, gm_evals,
                 gm_computed>>
\* the variables of the multi-area coordinator
multi_vars == <<calibration_matrix, calib_areas, running_log_path, init_params,
                estimate_init_params, calibrate_params, ctor_args, c_pc, c_idx, c_outcome,
                area_mats, putter_qs, getter_qs,
                f_pc, need_area_keys, queue_data, seed_mat, furness_out, furnessed_mats,
                f_idx, t_pc, t_obj, cost_args, opt_x, nfev, t_final, jac_i, jacobian,
                t_error, sent, taken, round_log, recv>>

input_vars == <<calibration_matrix, calib_areas, running_log_path, init_params,
                estimate_init_params, calibrate_params, ctor_args>>
coord_vars == <<c_pc, c_idx, c_outcome>>
queue_vars == <<putter_qs, getter_qs>>
furness_vars == <<f_pc, need_area_keys, queue_data, seed_mat, furness_out,
                  furnessed_mats, f_idx>>
thread_vars == <<t_pc, t_obj, cost_args, opt_x, nfev, t_final, jac_i, jacobian, t_error>>
history_vars == <<sent, taken, round_log, recv>>

\* du.list_safe_remove
list_safe_remove(lst, remove) == SelectSeq(lst, LAMBDA x : x \notin remove)

\* np.unique: the sorted distinct labels
Unique(matrix) == SortedSeq({matrix[c] : c \in Cells})

\* MultiTLDGravityModelCalibrator.__init__: the calibration areas
CalibAreasOf(matrix) == list_safe_remove(Unique(matrix), {IgnoreCalibAreaValue})

Areas == SeqToSet(calib_areas)

\* a variant of the mask that takes every label from area_id upwards
AreaMatFromLabel(matrix, area_id) ==
    Eager([c \in Cells |-> IF matrix[c] >= area_id THEN 1 ELSE 0])

\* self.calibration_matrix == area_id
AreaMat(matrix, area_id) ==
    Eager([c \in Cells |-> IF matrix[c] = area_id THEN 1 ELSE 0])

\* no single-area calibrator is constructed
SingleIdle ==
    /\ use_perceived_factors = FALSE
    /\ target_convergence = 0
    /\ gm_init_params = None
    /\ gm_estimate_init_params = FALSE
    /\ gm_calibrate_params = FALSE
    /\ gm = None
    /\ gm_pc = "idle"
    /\ gm_pass = 0
    /\ gm_x0 = None
    /\ gm_outcome = [kind |-> "running"]
    /\ gm_warnings = <<>>
    /\ gm_args = None
    /\ gm_opt_x = None
    /\ gm_nfev = 0
    /\ gm_final = FALSE
    /\ gm_jacobian = <<>>
    /\ gm_evals = <<>>
    /\ gm_computed = None

\* the threads, channels and histories of the coordinator before calibrate
MultiUnstarted ==
    /\ c_idx = 0
    /\ c_outcome = [kind |-> "running"]
    /\ area_mats = <<>>
    /\ putter_qs = <<>>
    /\ getter_qs = <<>>
    /\ f_pc = [g \in Furnessers |-> "unstarted"]
    /\ need_area_keys = [g \in Furnessers |-> {}]
    /\ queue_data = [g \in Furnessers |-> <<>>]
    /\ seed_mat = [g \in Furnessers |-> None]
    /\ furness_out = [g \in Furnessers |-> None]
    /\ furnessed_mats = [g \in Furnessers |-> <<>>]
    /\ f_idx = [g \in Furnessers |-> 0]
    /\ t_pc = <<>>
    /\ t_obj = <<>>
    /\ cost_args = <<>>
    /\ opt_x = <<>>
    /\ nfev = <<>>
    /\ t_final = <<>>
    /\ jac_i = <<>>
    /\ jacobian = <<>>
    /\ t_error = <<>>
    /\ sent = <<>>
    /\ taken = <<>>
    /\ round_log = [g \in Furnessers |-> <<>>]
    /\ recv = <<>>

\* a MultiTLDGravityModelCalibrator is constructed; calibrate is about to run
Init ==
    /\ calibration_matrix \in CalibrationMatrices
    /\ calib_areas = CalibAreasOf(calibration_matrix)
    /\ running_log_path \in RunningLogPaths
    /\ init_params \in InitParamsInputs
    /\ estimate_init_params \in BOOLEAN
    /\ calibrate_params \in BOOLEAN
    /\ ctor_args = [calibration_naming |-> Areas,
                    target_cost_distributions |-> Areas, dir_exists |-> TRUE]
    /\ c_pc = "calibrate"
    /\ MultiUnstarted
    /\ SingleIdle
    /\ call = None

(***************************************************************************)
(* MultiTLDGravityModelCalibrator.calibrate, run by the caller's thread.   *)
(***************************************************************************)
CalibrationNamingInput(area_id) == IF area_id = 1 THEN "north" ELSE "south"

\* calibrate: validate_params, then _multi_tld_calibrate
Calibrate ==
    /\ c_pc = "calibrate"
    /\ IF ~ValidateParams(init_params)
       THEN /\ c_pc' = "end"
            /\ c_outcome' = [kind |-> "raised", error |-> "validate_params"]
       ELSE IF calibrate_params
       THEN /\ c_pc' = "setup"
            /\ UNCHANGED c_outcome
       \* optimal_params is filled with init_params and dropped
       ELSE /\ c_pc' = "end"
            /\ c_outcome' = [kind |-> "returned", value |-> None]
    /\ UNCHANGED <<single_vars, input_vars, c_idx, area_mats, queue_vars, furness_vars,
                   thread_vars, history_vars>>

\* _threaded_calibrate: the masks, the four channel maps, both furness threads
ThreadedCalibrateSetup ==
    /\ c_pc = "setup"
    /\ area_mats' = [a \in Areas |-> AreaMat(calibration_matrix, a)]
    /\ putter_qs' = [g \in Furnessers |-> [a \in Areas |-> <<>>]]
    /\ getter_qs' = [g \in Furnessers |-> [a \in Areas |-> <<>>]]
    /\ f_pc' = [g \in Furnessers |-> "collect"]
    /\ need_area_keys' = [g \in Furnessers |-> Areas]
    /\ queue_data' = [g \in Furnessers |-> [a \in Areas |-> None]]
    /\ t_pc' = [a \in Areas |-> "unstarted"]
    /\ t_obj' = [a \in Areas |-> None]
    /\ cost_args' = [a \in Areas |-> None]
    /\ opt_x' = [a \in Areas |-> None]
    /\ nfev' = [a \in Areas |-> 0]
    /\ t_final' = [a \in Areas |-> FALSE]
    /\ jac_i' = [a \in Areas |-> 0]
    /\ jacobian' = [a \in Areas |-> <<>>]
    /\ t_error' = [a \in Areas |-> "none"]
    /\ sent' = [g \in Furnessers |-> [a \in Areas |-> <<>>]]
    /\ taken' = [g \in Furnessers |-> [a \in Areas |-> <<>>]]
    /\ recv' = [g \in Furnessers |-> [a \in Areas |-> <<>>]]
    /\ c_pc' = "start_threads"
    /\ c_idx' = 1
    /\ UNCHANGED <<single_vars, input_vars, c_outcome, seed_mat, furness_out, furnessed_mats,
                   f_idx, round_log>>

\* the loop that creates and starts one SingleTLDCalibratorThread per area;
\* os.path.split(None) raises TypeError
StartCalibratorThread ==
    /\ c_pc = "start_threads"
    /\ LET area_id == calib_areas[c_idx]
           area_cost == MatMul(CostMatrixInput, area_mats[area_id])
           area_running_log_path ==
               [dir_name |-> running_log_path.dir_name,
                area |-> CalibrationNamingInput(area_id),
                fname |-> running_log_path.fname]
       IN IF running_log_path = None
          THEN /\ c_pc' = "end"
               /\ c_outcome' = [kind |-> "raised", error |-> "TypeError: os.path.split"]
               /\ UNCHANGED <<c_idx, t_pc, t_obj>>
          ELSE /\ t_obj' = [t_obj EXCEPT ![area_id] =
                     GravityModelBaseInit(area_cost,
                         TargetCostDistributionsInput(area_id),
                         area_running_log_path, NoFile)]
               /\ t_pc' = [t_pc EXCEPT ![area_id] = "start"]
               /\ c_idx' = c_idx + 1
               /\ c_pc' = IF c_idx = Len(calib_areas) THEN "wait" ELSE "start_threads"
               /\ UNCHANGED c_outcome
    /\ UNCHANGED <<single_vars, input_vars, area_mats, queue_vars, furness_vars, cost_args, opt_x,
                   nfev, t_final, jac_i, jacobian, t_error, history_vars>>

\* multithreading.wait_for_thread_dict_return_or_error (section 5 of the
\* specification): polls the threads it is given until each has returned;
\* the error one of them ended with is raised in the caller
ThreadsWithError(threads) == {a \in threads : t_pc[a] = "error"}
ThreadsAllReturned(threads) == \A a \in threads : t_pc[a] = "done"

\* multithreading.get_data_from_queue (section 5): waits, without a
\* timeout, until the queue holds an item, and takes it
CanGetDataFromQueue(q) == Len(q) > 0

\* wait_for_thread_dict_return_or_error(threads=calibrator_threads) raises
WaitThreadError ==
    /\ c_pc = "wait"
    /\ \E a \in ThreadsWithError(Areas) :
          c_outcome' = [kind |-> "raised", error |-> t_error[a]]
    /\ c_pc' = "end"
    /\ UNCHANGED <<single_vars, input_vars, c_idx, area_mats, queue_vars, furness_vars,
                   thread_vars, history_vars>>

\* a variant of the end of _threaded_calibrate that stops both furness
\* threads before exit()
WaitThreadsDoneStopping ==
    /\ c_pc = "wait"
    /\ ThreadsAllReturned(Areas)
    /\ c_pc' = "end"
    /\ c_outcome' = [kind |-> "raised", error |-> "SystemExit"]
    /\ f_pc' = [g \in Furnessers |-> "stopped"]
    /\ UNCHANGED <<single_vars, input_vars, c_idx, area_mats, queue_vars, need_area_keys,
                   queue_data, seed_mat, furness_out, furnessed_mats, f_idx,
                   thread_vars, history_vars>>

\* every calibrator thread has returned: the prints, then exit(), which
\* raises SystemExit; nothing is returned
WaitThreadsDone ==
    /\ c_pc = "wait"
    /\ ThreadsAllReturned(Areas)
    /\ c_pc' = "end"
    /\ c_outcome' = [kind |-> "raised", error |-> "SystemExit"]
    /\ UNCHANGED <<single_vars, input_vars, c_idx, area_mats, queue_vars, furness_vars,
                   thread_vars, history_vars>>

(***************************************************************************)
(* SingleTLDCalibratorThread: one per calibration area.                    *)
(***************************************************************************)
\* run_target up to the first residual evaluation: validate_params, the
\* optional _estimate_init_params, _initialise_calibrate_params
CalibratorRunTarget(a) ==
    /\ t_pc[a] = "start"
    /\ \E x0 \in (IF estimate_init_params THEN TrialArgs
                  ELSE {order_cost_params(init_params)}) :
          /\ cost_args' = [cost_args EXCEPT ![a] = x0]
          /\ opt_x' = [opt_x EXCEPT ![a] = x0]
    /\ t_obj' = [t_obj EXCEPT ![a] = initialise_calibrate_params(@)]
    /\ t_pc' = [t_pc EXCEPT ![a] = "fun"]
    /\ UNCHANGED <<single_vars, input_vars, coord_vars, area_mats, queue_vars, furness_vars,
                   nfev, t_final, jac_i, jacobian, t_error, history_vars>>

\* a variant of gravity_furness that puts and does not wait for the reply
GravityFurnessPutNoWait(a) ==
    /\ t_pc[a] = "fun"
    /\ Len(putter_qs["gravity"][a]) < QueueMaxSize
    /\ LET o == GravityPrepare(t_obj[a], cost_args[a], DiffStepInput)
           seed_matrix == o.jacobian_mats.base
       IN /\ t_obj' = [t_obj EXCEPT ![a] = o]
          /\ putter_qs' = [putter_qs EXCEPT !["gravity"][a] = Append(@, seed_matrix)]
          /\ sent' = [sent EXCEPT !["gravity"][a] = Append(@, seed_matrix)]
    /\ UNCHANGED <<single_vars, input_vars, coord_vars, area_mats, getter_qs, furness_vars, t_pc,
                   cost_args, opt_x, nfev, t_final, jac_i, jacobian, t_error, taken,
                   round_log, recv>>

\* _gravity_function down to gravity_furness: gravity_putter_q.put(seed_matrix)
GravityFurnessPut(a) ==
    /\ t_pc[a] = "fun"
    /\ Len(putter_qs["gravity"][a]) < QueueMaxSize
    /\ LET o == GravityPrepare(t_obj[a], cost_args[a], DiffStepInput)
           seed_matrix == o.jacobian_mats.base
       IN /\ t_obj' = [t_obj EXCEPT ![a] = o]
          /\ putter_qs' = [putter_qs EXCEPT !["gravity"][a] = Append(@, seed_matrix)]
          /\ sent' = [sent EXCEPT !["gravity"][a] = Append(@, seed_matrix)]
    /\ t_pc' = [t_pc EXCEPT ![a] = "fun_wait"]
    /\ UNCHANGED <<single_vars, input_vars, coord_vars, area_mats, getter_qs, furness_vars, cost_args,
                   opt_x, nfev, t_final, jac_i, jacobian, t_error, taken, round_log, recv>>

\* a variant of gravity_furness that reads the reply and leaves it on the
\* channel
GravityFurnessGetPeek(a) ==
    /\ t_pc[a] = "fun_wait"
    /\ CanGetDataFromQueue(getter_qs["gravity"][a])
    /\ LET furness_data == Head(getter_qs["gravity"][a])
       IN /\ recv' = [recv EXCEPT !["gravity"][a] = Append(@, furness_data)]
          /\ t_obj' = [t_obj EXCEPT ![a] = GravityFinish(@, cost_args[a], furness_data)]
    /\ IF GravityRaises(t_obj[a])
       THEN /\ t_pc' = [t_pc EXCEPT ![a] = "error"]
            /\ t_error' = [t_error EXCEPT ![a] = "TypeError: os.path.exists"]
            /\ UNCHANGED nfev
       ELSE /\ t_pc' = [t_pc EXCEPT ![a] = IF t_final[a] THEN "done" ELSE "optimize"]
            /\ nfev' = [nfev EXCEPT ![a] = IF t_final[a] THEN @ ELSE @ + 1]
            /\ UNCHANGED t_error
    /\ UNCHANGED <<single_vars, input_vars, coord_vars, area_mats, queue_vars, furness_vars, cost_args,
                   opt_x, t_final, jac_i, jacobian, sent, taken, round_log>>

\* get_data_from_queue(gravity_getter_q), then the rest of _gravity_function
GravityFurnessGet(a) ==
    /\ t_pc[a] = "fun_wait"
    /\ CanGetDataFromQueue(getter_qs["gravity"][a])
    /\ LET furness_data == Head(getter_qs["gravity"][a])
       IN /\ getter_qs' = [getter_qs EXCEPT !["gravity"][a] = Tail(@)]
          /\ recv' = [recv EXCEPT !["gravity"][a] = Append(@, furness_data)]
          /\ t_obj' = [t_obj EXCEPT ![a] = GravityFinish(@, cost_args[a], furness_data)]
    /\ IF GravityRaises(t_obj[a])
       THEN /\ t_pc' = [t_pc EXCEPT ![a] = "error"]
            /\ t_error' = [t_error EXCEPT ![a] = "TypeError: os.path.exists"]
            /\ UNCHANGED nfev
       ELSE /\ t_pc' = [t_pc EXCEPT ![a] = IF t_final[a] THEN "done" ELSE "optimize"]
            /\ nfev' = [nfev EXCEPT ![a] = IF t_final[a] THEN @ ELSE @ + 1]
            /\ UNCHANGED t_error
    /\ UNCHANGED <<single_vars, input_vars, coord_vars, area_mats, putter_qs, furness_vars, cost_args,
                   opt_x, t_final, jac_i, jacobian, sent, taken, round_log>>

\* scipy.optimize.least_squares: the evaluated point is accepted (the first
\* one always is) and the Jacobian is asked for at it
LeastSquaresAccept(a) ==
    /\ t_pc[a] = "optimize"
    /\ opt_x' = [opt_x EXCEPT ![a] = cost_args[a]]
    /\ jac_i' = [jac_i EXCEPT ![a] = 1]
    /\ jacobian' = [jacobian EXCEPT ![a] = <<>>]
    /\ t_pc' = [t_pc EXCEPT ![a] = "jac"]
    /\ UNCHANGED <<single_vars, input_vars, coord_vars, area_mats, queue_vars, furness_vars, t_obj,
                   cost_args, nfev, t_final, t_error, history_vars>>

\* the evaluated trial point did not reduce the cost
LeastSquaresReject(a) ==
    /\ t_pc[a] = "optimize"
    /\ nfev[a] > 1
    /\ t_pc' = [t_pc EXCEPT ![a] = "step"]
    /\ UNCHANGED <<single_vars, input_vars, coord_vars, area_mats, queue_vars, furness_vars, t_obj,
                   cost_args, opt_x, nfev, t_final, jac_i, jacobian, t_error, history_vars>>

\* another trial point, while max_nfev allows
LeastSquaresTrial(a) ==
    /\ t_pc[a] = "step"
    /\ nfev[a] < MaxNfev
    /\ \E x \in TrialArgs : cost_args' = [cost_args EXCEPT ![a] = x]
    /\ t_pc' = [t_pc EXCEPT ![a] = "fun"]
    /\ UNCHANGED <<single_vars, input_vars, coord_vars, area_mats, queue_vars, furness_vars, t_obj,
                   opt_x, nfev, t_final, jac_i, jacobian, t_error, history_vars>>

\* _calibrate after least_squares: optimal_cost_params, then the last
\* residual evaluation at them
LeastSquaresDone(a) ==
    /\ t_pc[a] = "step"
    /\ t_obj' = [t_obj EXCEPT ![a].optimal_cost_params = cost_params_to_kwargs(opt_x[a])]
    /\ cost_args' = [cost_args EXCEPT ![a] = opt_x[a]]
    /\ t_final' = [t_final EXCEPT ![a] = TRUE]
    /\ t_pc' = [t_pc EXCEPT ![a] = "fun"]
    /\ UNCHANGED <<single_vars, input_vars, coord_vars, area_mats, queue_vars, furness_vars,
                   opt_x, nfev, jac_i, jacobian, t_error, history_vars>>

\* a variant of jacobian_furness that puts and does not wait for the reply
JacobianFurnessPutNoWait(a) ==
    /\ t_pc[a] = "jac"
    /\ Len(putter_qs["jacobian"][a]) < QueueMaxSize
    /\ LET request == JacobianRequest(t_obj[a], kw_order[jac_i[a]])
       IN /\ putter_qs' = [putter_qs EXCEPT !["jacobian"][a] = Append(@, request)]
          /\ sent' = [sent EXCEPT !["jacobian"][a] = Append(@, request)]
    /\ UNCHANGED <<single_vars, input_vars, coord_vars, area_mats, getter_qs, furness_vars, thread_vars,
                   taken, round_log, recv>>

\* _jacobian_function, one cost parameter: jacobian_putter_q.put(request)
JacobianFurnessPut(a) ==
    /\ t_pc[a] = "jac"
    /\ Len(putter_qs["jacobian"][a]) < QueueMaxSize
    /\ LET request == JacobianRequest(t_obj[a], kw_order[jac_i[a]])
       IN /\ putter_qs' = [putter_qs EXCEPT !["jacobian"][a] = Append(@, request)]
          /\ sent' = [sent EXCEPT !["jacobian"][a] = Append(@, request)]
    /\ t_pc' = [t_pc EXCEPT ![a] = "jac_wait"]
    /\ UNCHANGED <<single_vars, input_vars, coord_vars, area_mats, getter_qs, furness_vars, t_obj,
                   cost_args, opt_x, nfev, t_final, jac_i, jacobian, t_error,
                   taken, round_log, recv>>

\* a variant of _jacobian_function that leaves the loop over kw_order after
\* the first cost parameter
JacobianFurnessGetFirstParam(a) ==
    /\ t_pc[a] = "jac_wait"
    /\ CanGetDataFromQueue(getter_qs["jacobian"][a])
    /\ LET furness_data == Head(getter_qs["jacobian"][a])
       IN /\ getter_qs' = [getter_qs EXCEPT !["jacobian"][a] = Tail(@)]
          /\ recv' = [recv EXCEPT !["jacobian"][a] = Append(@, furness_data)]
          /\ jacobian' = [jacobian EXCEPT ![a] = Append(@,
                 JacobianColumn(t_obj[a], cost_args[a], kw_order[jac_i[a]],
                                DiffStepInput, furness_data))]
    /\ jac_i' = [jac_i EXCEPT ![a] = @ + 1]
    /\ t_pc' = [t_pc EXCEPT ![a] = "step"]
    /\ UNCHANGED <<single_vars, input_vars, coord_vars, area_mats, putter_qs, furness_vars, t_obj,
                   cost_args, opt_x, nfev, t_final, t_error, sent, taken, round_log>>

\* get_data_from_queue(jacobian_getter_q), then the column of the Jacobian
JacobianFurnessGet(a) ==
    /\ t_pc[a] = "jac_wait"
    /\ CanGetDataFromQueue(getter_qs["jacobian"][a])
    /\ LET furness_data == Head(getter_qs["jacobian"][a])
       IN /\ getter_qs' = [getter_qs EXCEPT !["jacobian"][a] = Tail(@)]
          /\ recv' = [recv EXCEPT !["jacobian"][a] = Append(@, furness_data)]
          /\ jacobian' = [jacobian EXCEPT ![a] = Append(@,
                 JacobianColumn(t_obj[a], cost_args[a], kw_order[jac_i[a]],
                                DiffStepInput, furness_data))]
    /\ jac_i' = [jac_i EXCEPT ![a] = @ + 1]
    /\ t_pc' = [t_pc EXCEPT ![a] = IF jac_i[a] = Len(kw_order) THEN "step" ELSE "jac"]
    /\ UNCHANGED <<single_vars, input_vars, coord_vars, area_mats, putter_qs, furness_vars, t_obj,
                   cost_args, opt_x, nfev, t_final, t_error, sent, taken, round_log>>

\* an unhandled error in the thread before it submits (the cost function
\* raising): ReturnOrErrorThread keeps it
CalibratorThreadError(a) ==
    /\ t_pc[a] = "fun"
    /\ t_pc' = [t_pc EXCEPT ![a] = "error"]
    /\ t_error' = [t_error EXCEPT ![a] = "ValueError"]
    /\ UNCHANGED <<single_vars, input_vars, coord_vars, area_mats, queue_vars, furness_vars, t_obj,
                   cost_args, opt_x, nfev, t_final, jac_i, jacobian, history_vars>>

(***************************************************************************)
(* FurnessThreadBase: the gravity-furness and jacobian-furness threads.    *)
(***************************************************************************)
\* a variant of _get_q_data that reads the head of the channel and leaves it
\* there
GetQDataPeek(g, a) ==
    /\ f_pc[g] = "collect"
    /\ a \in need_area_keys[g]
    /\ Len(putter_qs[g][a]) > 0
    /\ LET data == Head(putter_qs[g][a])
       IN /\ queue_data' = [queue_data EXCEPT ![g][a] = data]
          /\ taken' = [taken EXCEPT ![g][a] = Append(@, data)]
    /\ need_area_keys' = [need_area_keys EXCEPT ![g] = @ \ {a}]
    /\ f_pc' = [f_pc EXCEPT ![g] = IF need_area_keys[g] = {a} THEN "furness" ELSE "collect"]
    /\ UNCHANGED <<single_vars, input_vars, coord_vars, area_mats, queue_vars, seed_mat, furness_out,
                   furnessed_mats, f_idx, thread_vars, sent, round_log, recv>>

\* _get_q_data: one successful getter_qs[area_id].get(block=False) of a poll;
\* the loop ends once need_area_keys is empty
GetQData(g, a) ==
    /\ f_pc[g] = "collect"
    /\ a \in need_area_keys[g]
    /\ Len(putter_qs[g][a]) > 0
    /\ LET data == Head(putter_qs[g][a])
       IN /\ queue_data' = [queue_data EXCEPT ![g][a] = data]
          /\ taken' = [taken EXCEPT ![g][a] = Append(@, data)]
    /\ putter_qs' = [putter_qs EXCEPT ![g][a] = Tail(@)]
    /\ need_area_keys' = [need_area_keys EXCEPT ![g] = @ \ {a}]
    /\ f_pc' = [f_pc EXCEPT ![g] = IF need_area_keys[g] = {a} THEN "furness" ELSE "collect"]
    /\ UNCHANGED <<single_vars, input_vars, coord_vars, area_mats, getter_qs, seed_mat, furness_out,
                   furnessed_mats, f_idx, thread_vars, sent, round_log, recv>>

\* get_furness_data: GravityFurnessThread returns the fixed targets,
\* JacobianFurnessThread the sum of the targets of the requests
SeedMats(g, data) ==
    Eager([a \in DOMAIN data |-> IF g = "gravity" THEN data[a] ELSE data[a].matrix])

\* a variant of the reduction that keeps the first request's targets
ReduceFirst(vecs, keys) ==
    IF Len(keys) = 0 THEN VecZeros ELSE vecs[Head(keys)]

RECURSIVE ReduceAdd(_, _)
ReduceAdd(vecs, keys) ==
    IF Len(keys) = 0 THEN VecZeros
    ELSE VecAdd(vecs[Head(keys)], ReduceAdd(vecs, Tail(keys)))

FurnessRowTargets(g, data) ==
    IF g = "gravity" THEN RowTargetsInput
    ELSE ReduceAdd([a \in DOMAIN data |-> data[a].row_targets], calib_areas)

FurnessColTargets(g, data) ==
    IF g = "gravity" THEN ColTargetsInput
    ELSE ReduceAdd([a \in DOMAIN data |-> data[a].col_targets], calib_areas)

\* a variant of the sum that keeps the first area's seed matrix only
SumFirstSeedMat(seed_mats, keys) ==
    IF Len(keys) = 0 THEN MatZeros ELSE seed_mats[Head(keys)]

\* seed_mat += seed_mats[area_code] over calib_area_keys
RECURSIVE SumSeedMats(_, _)
SumSeedMats(seed_mats, keys) ==
    IF Len(keys) = 0 THEN MatZeros
    ELSE MatAdd(seed_mats[Head(keys)], SumSeedMats(seed_mats, Tail(keys)))

FurnessTol(g) == IF g = "gravity" THEN FurnessInput.furness_tol ELSE JacobianFurnessTol
FurnessMaxIters(g) ==
    IF g = "gravity" THEN FurnessInput.furness_max_iters ELSE JacobianFurnessMaxIters

\* a variant of the split that hands every area the whole furnessed matrix
SplitMatNoMask(furnessed_mat, area_mat) == furnessed_mat

\* furnessed_mat * self.area_mats[area_code]
SplitMat(furnessed_mat, area_mat) == MatMul(furnessed_mat, area_mat)

\* run_target: sum the seed matrices, run the furness, split the result
RunFurness(g) ==
    /\ f_pc[g] = "furness"
    /\ LET data == queue_data[g]
           row_targets == FurnessRowTargets(g, data)
           col_targets == FurnessColTargets(g, data)
           seed == SumSeedMats(SeedMats(g, data), calib_areas)
           out == doubly_constrained_furness(seed, row_targets, col_targets,
                                             FurnessTol(g), FurnessMaxIters(g))
       IN /\ seed_mat' = [seed_mat EXCEPT ![g] = seed]
          /\ furness_out' = [furness_out EXCEPT ![g] = out]
          /\ furnessed_mats' = [furnessed_mats EXCEPT ![g] =
                 [a \in Areas |-> SplitMat(out.matrix, area_mats[a])]]
          /\ round_log' = [round_log EXCEPT ![g] = Append(@,
                 [inputs |-> data, seed_mat |-> seed, row_targets |-> row_targets,
                  col_targets |-> col_targets, furnessed_mat |-> out.matrix])]
    /\ f_pc' = [f_pc EXCEPT ![g] = "put"]
    /\ f_idx' = [f_idx EXCEPT ![g] = 1]
    /\ UNCHANGED <<single_vars, input_vars, coord_vars, area_mats, queue_vars, need_area_keys,
                   queue_data, thread_vars, sent, taken, recv>>

\* a variant of the put loop that starts the next round waiting for the first
\* area alone and keeps the other areas' last submissions
PutFurnessResultsFirstOnly(g) ==
    /\ f_pc[g] = "put"
    /\ LET area_id == calib_areas[f_idx[g]]
           data == [matrix |-> furnessed_mats[g][area_id],
                    completed_iters |-> furness_out[g].completed_iters,
                    achieved_rmse |-> furness_out[g].achieved_rmse]
       IN /\ Len(getter_qs[g][area_id]) < QueueMaxSize
          /\ getter_qs' = [getter_qs EXCEPT ![g][area_id] = Append(@, data)]
    /\ IF f_idx[g] = Len(calib_areas)
       THEN /\ f_pc' = [f_pc EXCEPT ![g] = "collect"]
            /\ need_area_keys' = [need_area_keys EXCEPT ![g] = {calib_areas[1]}]
            /\ f_idx' = [f_idx EXCEPT ![g] = 0]
            /\ UNCHANGED queue_data
       ELSE /\ f_idx' = [f_idx EXCEPT ![g] = @ + 1]
            /\ UNCHANGED <<f_pc, need_area_keys, queue_data>>
    /\ UNCHANGED <<single_vars, input_vars, coord_vars, area_mats, putter_qs, seed_mat, furness_out,
                   furnessed_mats, thread_vars, history_vars>>

\* run_target: self.putter_qs[area_id].put(FurnessResults(...)), in the order
\* of calib_area_keys; after the last one the loop starts over
PutFurnessResults(g) ==
    /\ f_pc[g] = "put"
    /\ LET area_id == calib_areas[f_idx[g]]
           data == [matrix |-> furnessed_mats[g][area_id],
                    completed_iters |-> furness_out[g].completed_iters,
                    achieved_rmse |-> furness_out[g].achieved_rmse]
       IN /\ Len(getter_qs[g][area_id]) < QueueMaxSize
          /\ getter_qs' = [getter_qs EXCEPT ![g][area_id] = Append(@, data)]
    /\ IF f_idx[g] = Len(calib_areas)
       THEN /\ f_pc' = [f_pc EXCEPT ![g] = "collect"]
            /\ need_area_keys' = [need_area_keys EXCEPT ![g] = Areas]
            /\ queue_data' = [queue_data EXCEPT ![g] = [a \in Areas |-> None]]
            /\ f_idx' = [f_idx EXCEPT ![g] = 0]
       ELSE /\ f_idx' = [f_idx EXCEPT ![g] = @ + 1]
            /\ UNCHANGED <<f_pc, need_area_keys, queue_data>>
    /\ UNCHANGED <<single_vars, input_vars, coord_vars, area_mats, putter_qs, seed_mat, furness_out,
                   furnessed_mats, thread_vars, history_vars>>

\* an unhandled error while summing or running the furness ends the thread;
\* ReturnOrErrorThread keeps the error on the thread object
FurnessThreadError(g) ==
    /\ f_pc[g] = "furness"
    /\ f_pc' = [f_pc EXCEPT ![g] = "error"]
    /\ UNCHANGED <<single_vars, input_vars, coord_vars, area_mats, queue_vars, need_area_keys,
                   queue_data, seed_mat, furness_out, furnessed_mats, f_idx,
                   thread_vars, history_vars>>

\* calibrator_threads: the threads created so far
CalibratorThreads == DOMAIN t_pc

Next ==
    \/ Calibrate
    \/ ThreadedCalibrateSetup
    \/ StartCalibratorThread
    \/ WaitThreadError
    \/ WaitThreadsDone
    \/ \E a \in CalibratorThreads : CalibratorRunTarget(a)
    \/ \E a \in CalibratorThreads : GravityFurnessPut(a)
    \/ \E a \in CalibratorThreads : GravityFurnessGet(a)
    \/ \E a \in CalibratorThreads : LeastSquaresAccept(a)
    \/ \E a \in CalibratorThreads : LeastSquaresReject(a)
    \/ \E a \in CalibratorThreads : LeastSquaresTrial(a)
    \/ \E a \in CalibratorThreads : LeastSquaresDone(a)
    \/ \E a \in CalibratorThreads : JacobianFurnessPut(a)
    \/ \E a \in CalibratorThreads : JacobianFurnessGet(a)
    \/ \E a \in CalibratorThreads : CalibratorThreadError(a)
    \/ \E g \in Furnessers, a \in Areas : GetQData(g, a)
    \/ \E g \in Furnessers : RunFurness(g)
    \/ \E g \in Furnessers : PutFurnessResults(g)
    \/ \E g \in Furnessers : FurnessThreadError(g)

Spec == Init /\ [][Next]_vars

(***************************************************************************)
(* GravityModelCalibrator: the single-area calibrator, run by one thread.  *)
(***************************************************************************)
\* GravityModelCalibrator.jacobian_furness: tol=1e-6, max_iters=20
SingleJacobianFurnessTol == 0
SingleJacobianFurnessMaxIters == 20

\* np.clip(perc_factors, 0.5, 2), in units of 1 / FactorUnit
PercFactorMin == 50
PercFactorMax == 200

\* target_convergence, in hundredths
TargetConvergences == {10, 15, 40, 76, 77, 80}

\* an existing running log: a header and one row of an earlier run
ExistingFile == [exists |-> TRUE, lines |-> <<HeaderRow, [loop_number |-> 0]>>]

\* upper_limit and lower_limit of calibrate, in hundredths
UpperLimit(tc) == tc + 3
\* a variant of the lower limit without the margin
LowerLimitAtTarget(tc) == tc
LowerLimit(tc) == tc - 15

\* a variant that clips from above only
RootClippedAbove(num, den) ==
    IF FactorUnit * FactorUnit * num >= PercFactorMax * PercFactorMax * den
    THEN PercFactorMax
    ELSE CHOOSE r \in 0..PercFactorMax :
             /\ r * r * den <= FactorUnit * FactorUnit * num
             /\ FactorUnit * FactorUnit * num < (r + 1) * (r + 1) * den

\* floor(FactorUnit * sqrt(num / den)) clipped to [PercFactorMin, PercFactorMax]
ClippedRoot(num, den) ==
    IF FactorUnit * FactorUnit * num < PercFactorMin * PercFactorMin * den
    THEN PercFactorMin
    ELSE IF FactorUnit * FactorUnit * num >= PercFactorMax * PercFactorMax * den
    THEN PercFactorMax
    ELSE CHOOSE r \in PercFactorMin..PercFactorMax :
             /\ r * r * den <= FactorUnit * FactorUnit * num
             /\ FactorUnit * FactorUnit * num < (r + 1) * (r + 1) * den

\* the adjustment of one band: sqrt(achieved / target) where target > 0,
\* one elsewhere, clipped
PercFactor(achieved, target, i) ==
    IF target.num[i] <= 0 THEN FactorUnit
    ELSE ClippedRoot(achieved.num[i] * target.den, achieved.den * target.num[i])

\* the loop over the bands: the cells with min <= cost < max take the factor
RECURSIVE PercFactorsMat(_, _, _, _)
PercFactorsMat(cost_matrix, bands, perc_factors, i) ==
    IF i = 0 THEN Eager([c \in Cells |-> FactorUnit])
    ELSE LET mat == PercFactorsMat(cost_matrix, bands, perc_factors, i - 1)
         IN Eager([c \in Cells |->
                IF cost_matrix[c] >= bands[i].min /\ cost_matrix[c] < bands[i].max
                THEN (mat[c] * perc_factors[i]) \div FactorUnit
                ELSE mat[c]])

\* GravityModelBase._calculate_perceived_factors
calculate_perceived_factors(o) ==
    LET target_band_share == o.target_cost_distribution.band_share
        bands == o.target_cost_distribution.bands
        perc_factors == [i \in DOMAIN bands |->
                            PercFactor(o.achieved_band_share, target_band_share, i)]
    IN [o EXCEPT !.perceived_factors =
           PercFactorsMat(o.cost_matrix, bands, perc_factors, Len(bands))]

\* GravityModelCalibrator.gravity_furness
gravity_furness(seed_matrix, row_targets, col_targets) ==
    doubly_constrained_furness(seed_matrix, row_targets, col_targets,
                               FurnessInput.furness_tol, FurnessInput.furness_max_iters)

\* GravityModelCalibrator.jacobian_furness
jacobian_furness(seed_matrix, row_targets, col_targets) ==
    doubly_constrained_furness(seed_matrix, row_targets, col_targets,
                               SingleJacobianFurnessTol, SingleJacobianFurnessMaxIters)

\* a GravityModelCalibrator is constructed; calibrate is about to run
InitCal ==
    /\ use_perceived_factors \in BOOLEAN
    /\ target_convergence \in TargetConvergences
    /\ gm_init_params \in InitParamsInputs
    /\ gm_estimate_init_params \in BOOLEAN
    /\ gm_calibrate_params \in BOOLEAN
    /\ \E path \in RunningLogPaths :
       \E log_file \in (IF path = None THEN {NoFile} ELSE {NoFile, ExistingFile}) :
          gm = GravityModelBaseInit(CostMatrixInput, TargetCostDistributionsInput(1),
                                    path, log_file)
    /\ gm_pc = "calibrate"
    /\ gm_pass = 1
    /\ gm_x0 = None
    /\ gm_outcome = [kind |-> "running"]
    /\ gm_warnings = <<>>
    /\ gm_args = None
    /\ gm_opt_x = None
    /\ gm_nfev = 0
    /\ gm_final = FALSE
    /\ gm_jacobian = <<>>
    /\ gm_evals = <<>>
    /\ gm_computed = None
    /\ call = None
    \* no coordinator is constructed
    /\ calibration_matrix = None
    /\ calib_areas = <<>>
    /\ running_log_path = None
    /\ init_params = None
    /\ estimate_init_params = FALSE
    /\ calibrate_params = FALSE
    /\ ctor_args = None
    /\ c_pc = "idle"
    /\ MultiUnstarted

\* calibrate: validate_params and the optional _estimate_init_params
CalCalibrate ==
    /\ gm_pc = "calibrate"
    /\ IF ~ValidateParams(gm_init_params)
       THEN /\ gm_pc' = "end"
            /\ gm_outcome' = [kind |-> "raised", error |-> "validate_params"]
            /\ UNCHANGED gm_x0
       ELSE /\ \E x0 \in (IF gm_estimate_init_params THEN TrialArgs
                          ELSE {order_cost_params(gm_init_params)}) : gm_x0' = x0
            /\ gm_pc' = "pass"
            /\ UNCHANGED gm_outcome
    /\ UNCHANGED <<multi_vars, single_input_vars, gm, gm_pass, gm_warnings, gm_args,
                   gm_opt_x, gm_nfev, gm_final, gm_jacobian, gm_evals, gm_computed>>

\* a variant of _calibrate that runs least_squares whatever calibrate_params is
CalibratePassOptimizing ==
    /\ gm_pc = "pass"
    /\ gm' = initialise_calibrate_params(gm)
    /\ gm_args' = gm_x0
    /\ gm_opt_x' = gm_x0
    /\ gm_nfev' = 0
    /\ gm_final' = FALSE
    /\ gm_jacobian' = <<>>
    /\ gm_pc' = "fun"
    /\ UNCHANGED <<multi_vars, single_input_vars, gm_pass, gm_x0, gm_outcome,
                   gm_warnings, gm_evals, gm_computed>>

\* _calibrate up to the first residual evaluation:
\* _initialise_calibrate_params, then least_squares from x0 or, when not
\* calibrating, the given parameters taken as optimal
CalibratePass ==
    /\ gm_pc = "pass"
    /\ gm' = IF gm_calibrate_params
             THEN initialise_calibrate_params(gm)
             ELSE [initialise_calibrate_params(gm) EXCEPT
                      !.optimal_cost_params = cost_params_to_kwargs(gm_x0)]
    /\ gm_args' = gm_x0
    /\ gm_opt_x' = gm_x0
    /\ gm_nfev' = 0
    /\ gm_final' = ~gm_calibrate_params
    /\ gm_jacobian' = <<>>
    /\ gm_pc' = "fun"
    /\ UNCHANGED <<multi_vars, single_input_vars, gm_pass, gm_x0, gm_outcome,
                   gm_warnings, gm_evals, gm_computed>>

\* _gravity_function, one residual evaluation
CalGravityFunction ==
    /\ gm_pc = "fun"
    /\ LET o == GravityPrepare(gm, gm_args, DiffStepInput)
           result == gravity_furness(o.jacobian_mats.base, RowTargetsInput,
                                     ColTargetsInput)
       IN gm' = GravityFinish(o, gm_args, result)
    /\ gm_evals' = Append(gm_evals,
           [pass |-> gm_pass, cost_args |-> gm_args, final |-> gm_final,
            perceived_factors |-> gm.perceived_factors,
            cost_matrix |-> apply_perceived_factors(gm, gm.cost_matrix),
            raised |-> GravityRaises(gm)])
    /\ IF GravityRaises(gm)
       THEN /\ gm_pc' = "end"
            /\ gm_outcome' = [kind |-> "raised", error |-> "TypeError: os.path.exists"]
            /\ UNCHANGED gm_nfev
       ELSE /\ gm_pc' = IF ~gm_final THEN "optimize"
                        ELSE IF gm_pass = 1 THEN "decide" ELSE "finish"
            /\ gm_nfev' = IF gm_final THEN gm_nfev ELSE gm_nfev + 1
            /\ UNCHANGED gm_outcome
    /\ UNCHANGED <<multi_vars, single_input_vars, gm_pass, gm_x0, gm_warnings, gm_args,
                   gm_opt_x, gm_final, gm_jacobian, gm_computed>>

\* least_squares accepts the evaluated point (the first one always) and asks
\* for the Jacobian at it
CalLeastSquaresAccept ==
    /\ gm_pc = "optimize"
    /\ gm_opt_x' = gm_args
    /\ gm_pc' = "jac"
    /\ UNCHANGED <<multi_vars, single_input_vars, gm, gm_pass, gm_x0, gm_outcome,
                   gm_warnings, gm_args, gm_nfev, gm_final, gm_jacobian, gm_evals,
                   gm_computed>>

\* the evaluated trial point did not reduce the cost
CalLeastSquaresReject ==
    /\ gm_pc = "optimize"
    /\ gm_nfev > 1
    /\ gm_pc' = "step"
    /\ UNCHANGED <<multi_vars, single_input_vars, gm, gm_pass, gm_x0, gm_outcome,
                   gm_warnings, gm_args, gm_opt_x, gm_nfev, gm_final, gm_jacobian,
                   gm_evals, gm_computed>>

\* _jacobian_function: one jacobian_furness per cost parameter, in kw_order
CalJacobianFunction ==
    /\ gm_pc = "jac"
    /\ gm_jacobian' = [i \in 1..Len(kw_order) |->
           LET request == JacobianRequest(gm, kw_order[i])
               result == jacobian_furness(request.matrix, request.row_targets,
                                          request.col_targets)
           IN JacobianColumn(gm, gm_args, kw_order[i], DiffStepInput, result)]
    /\ gm_pc' = "step"
    /\ UNCHANGED <<multi_vars, single_input_vars, gm, gm_pass, gm_x0, gm_outcome,
                   gm_warnings, gm_args, gm_opt_x, gm_nfev, gm_final, gm_evals,
                   gm_computed>>

\* another trial point, while max_nfev allows
CalLeastSquaresTrial ==
    /\ gm_pc = "step"
    /\ gm_nfev < MaxNfev
    /\ \E x \in TrialArgs : gm_args' = x
    /\ gm_pc' = "fun"
    /\ UNCHANGED <<multi_vars, single_input_vars, gm, gm_pass, gm_x0, gm_outcome,
                   gm_warnings, gm_opt_x, gm_nfev, gm_final, gm_jacobian, gm_evals,
                   gm_computed>>

\* a variant of _calibrate whose last residual evaluation is at the last
\* trial vector
CalLeastSquaresDoneAtTrial ==
    /\ gm_pc = "step"
    /\ gm' = [gm EXCEPT !.optimal_cost_params = cost_params_to_kwargs(gm_opt_x)]
    /\ gm_final' = TRUE
    /\ gm_pc' = "fun"
    /\ UNCHANGED <<multi_vars, single_input_vars, gm_pass, gm_x0, gm_outcome, gm_args,
                   gm_warnings, gm_opt_x, gm_nfev, gm_jacobian, gm_evals, gm_computed>>

\* _calibrate after least_squares: optimal_cost_params, then the last
\* residual evaluation at them
CalLeastSquaresDone ==
    /\ gm_pc = "step"
    /\ gm' = [gm EXCEPT !.optimal_cost_params = cost_params_to_kwargs(gm_opt_x)]
    /\ gm_args' = gm_opt_x
    /\ gm_final' = TRUE
    /\ gm_pc' = "fun"
    /\ UNCHANGED <<multi_vars, single_input_vars, gm_pass, gm_x0, gm_outcome,
                   gm_warnings, gm_opt_x, gm_nfev, gm_jacobian, gm_evals, gm_computed>>

\* calibrate after the first _calibrate: return, or warn and return, or
\* _calculate_perceived_factors and calibrate again from the optimal parameters
CalDecide ==
    /\ gm_pc = "decide"
    /\ LET achieved == TheVal(gm.achieved_convergence)
       IN IF ~use_perceived_factors \/ achieved > UpperLimit(target_convergence)
          THEN /\ gm_pc' = "end"
               /\ gm_outcome' = [kind |-> "returned", value |-> gm.optimal_cost_params]
               /\ UNCHANGED <<gm, gm_pass, gm_x0, gm_warnings, gm_computed>>
          ELSE IF achieved < LowerLimit(target_convergence)
          THEN /\ gm_pc' = "end"
               /\ gm_outcome' = [kind |-> "returned", value |-> gm.optimal_cost_params]
               /\ gm_warnings' = Append(gm_warnings, "lower threshold not reached")
               /\ UNCHANGED <<gm, gm_pass, gm_x0, gm_computed>>
          ELSE /\ gm' = calculate_perceived_factors(gm)
               /\ gm_computed' = calculate_perceived_factors(gm).perceived_factors
               /\ gm_x0' = order_cost_params(gm.optimal_cost_params)
               /\ gm_pass' = 2
               /\ gm_pc' = "pass"
               /\ UNCHANGED <<gm_outcome, gm_warnings>>
    /\ UNCHANGED <<multi_vars, single_input_vars, gm_args, gm_opt_x, gm_nfev, gm_final,
                   gm_jacobian, gm_evals>>

\* calibrate after the second _calibrate: the warning, and the return
CalFinish ==
    /\ gm_pc = "finish"
    /\ gm_warnings' = IF TheVal(gm.achieved_convergence) < target_convergence
                      THEN Append(gm_warnings, "target_convergence not reached")
                      ELSE gm_warnings
    /\ gm_outcome' = [kind |-> "returned", value |-> gm.optimal_cost_params]
    /\ gm_pc' = "end"
    /\ UNCHANGED <<multi_vars, single_input_vars, gm, gm_pass, gm_x0, gm_args, gm_opt_x,
                   gm_nfev, gm_final, gm_jacobian, gm_evals, gm_computed>>

NextCal ==
    \/ CalCalibrate
    \/ CalibratePass
    \/ CalGravityFunction
    \/ CalLeastSquaresAccept
    \/ CalLeastSquaresReject
    \/ CalJacobianFunction
    \/ CalLeastSquaresTrial
    \/ CalLeastSquaresDone
    \/ CalDecide
    \/ CalFinish

SpecCal == InitCal /\ [][NextCal]_vars

(***************************************************************************)
(* Properties of the single-area calibrator.                               *)
(***************************************************************************)
\* C1: when the first pass ends inside the window and perceived factors are
\* used, every residual evaluation of the second pass multiplies the cost
\* matrix by the factor matrix that _calculate_perceived_factors computed
\* from the first pass.
SecondPassUsesComputedFactors ==
    \A i \in 1..Len(gm_evals) :
        gm_evals[i].pass = 2 => gm_evals[i].perceived_factors = gm_computed

(***************************************************************************)
(* Properties of the multi-area coordinator.                               *)
(***************************************************************************)
Waiting(a) == t_pc[a] \in {"fun_wait", "jac_wait"}
Ended(a) == t_pc[a] \in {"done", "error"}
WaitsOn(a) == IF t_pc[a] = "fun_wait" THEN "gravity" ELSE "jacobian"
Started == c_pc \in {"start_threads", "wait", "end"} /\ DOMAIN t_pc # {}

\* the index of an area in calib_area_keys
AreaIndex(a) == CHOOSE i \in 1..Len(calib_areas) : calib_areas[i] = a

\* a submission the furness thread has taken and not yet answered
Held(g, a) ==
    /\ queue_data[g][a] # None
    /\ ~(f_pc[g] = "put" /\ AreaIndex(a) < f_idx[g])

\* C2: the areas a furness thread still waits for in a round are among the
\* areas that are still running (or whose submission is already enqueued), so
\* that the submission of a running area is answered after another area has
\* completed or failed.
AggregatorWaitsOnlyForActiveAreas ==
    Started =>
        \A g \in Furnessers : \A a \in Areas :
            (Waiting(a) /\ WaitsOn(a) = g /\ f_pc[g] = "collect") =>
                \A b \in need_area_keys[g] :
                    ~Ended(b) \/ Len(putter_qs[g][b]) > 0

\* C3: with no thread failed, the threads are never all blocked: whenever every
\* calibrator thread waits for a response, a furness thread can take a
\* submission, run, or publish.
AllBlocked ==
    /\ c_pc = "wait"
    /\ \A g \in Furnessers : f_pc[g] = "collect"
    /\ \A a \in Areas : Waiting(a) /\ getter_qs[WaitsOn(a)][a] = <<>>
    /\ \A g \in Furnessers : \A a \in need_area_keys[g] : putter_qs[g][a] = <<>>

NeverAllBlocked == ~AllBlocked

\* C4: once every calibrator thread has finished, calibrate has returned (or
\* is about to return, while it still polls) a map with one entry per
\* calibration area holding that area's optimal parameters.
AllThreadsDone == Started /\ c_pc # "start_threads" /\ \A a \in Areas : t_pc[a] = "done"

CalibrateReturnsAreaParams ==
    (AllThreadsDone /\ c_pc = "end") =>
        /\ c_outcome.kind = "returned"
        /\ c_outcome.value = [a \in Areas |-> t_obj[a].optimal_cost_params]

(***************************************************************************)
(* The rendezvous rounds.                                                  *)
(***************************************************************************)
ChannelsExist == c_pc \in {"start_threads", "wait", "end"} /\ DOMAIN sent # {}

\* the matrix of a submission: the gravity seed itself, or the matrix of a
\* JacobianFurnessRequest
SubmittedMat(g, data) == IF g = "gravity" THEN data ELSE data.matrix

\* the k-th submissions of all areas, summed cell by cell
RoundSeed(g, k) ==
    Eager([c \in Cells |->
        SumOver([b \in Areas |-> SubmittedMat(g, sent[g][b][k])[c]], Areas)])

\* the targets of round k
RoundRowTargets(g, k) ==
    IF g = "gravity" THEN RowTargetsInput
    ELSE Eager([z \in Zones |->
             SumOver([b \in Areas |-> sent[g][b][k].row_targets[z]], Areas)])

RoundColTargets(g, k) ==
    IF g = "gravity" THEN ColTargetsInput
    ELSE Eager([z \in Zones |->
             SumOver([b \in Areas |-> sent[g][b][k].col_targets[z]], Areas)])

\* C5: a furness thread runs the furness of a round only once it holds exactly
\* one submission of every area taken in that round; the seed of the round is
\* the cell-wise sum of exactly those submissions; every submission is either
\* still on its channel or was taken once, in the order it was put (none is
\* taken twice, none is dropped).
SeedIsSumOfOneSubmissionPerArea ==
    ChannelsExist =>
        \A g \in Furnessers :
            /\ \A a \in Areas : sent[g][a] = taken[g][a] \o putter_qs[g][a]
            /\ f_pc[g] \in {"furness", "error"} =>
                  \A a \in Areas :
                      /\ Len(taken[g][a]) = Len(round_log[g]) + 1
                      /\ queue_data[g][a] = taken[g][a][Len(taken[g][a])]
            /\ f_pc[g] = "put" =>
                  \A a \in Areas : Len(taken[g][a]) = Len(round_log[g])
            /\ f_pc[g] = "collect" =>
                  \A a \in Areas :
                      Len(taken[g][a]) =
                          Len(round_log[g]) + (IF a \in need_area_keys[g] THEN 0 ELSE 1)
            /\ \A r \in 1..Len(round_log[g]) :
                  /\ \A a \in Areas : round_log[g][r].inputs[a] = taken[g][a][r]
                  /\ round_log[g][r].seed_mat = RoundSeed(g, r)

\* two areas, two gravity rounds and a jacobian round run, with different
\* submissions of the two areas in the second gravity round
SeedIsSumWitness ==
    /\ ChannelsExist
    /\ Cardinality(Areas) = 2
    /\ Len(round_log["gravity"]) >= 2
    /\ Len(round_log["jacobian"]) >= 1
    /\ round_log["gravity"][2].inputs[1] # round_log["gravity"][1].inputs[1]
    /\ round_log["gravity"][2].seed_mat # round_log["gravity"][2].inputs[1]

\* C6: no area races ahead: on every channel to a furness thread, an area has
\* put its (k+1)-th submission only if every other area has put its k-th.
NoAreaRacesAhead ==
    ChannelsExist =>
        \A g \in Furnessers : \A a, b \in Areas :
            Len(sent[g][a]) <= Len(sent[g][b]) + 1

\* one area has put its second submission, the other one only its first
NoAreaRacesAheadWitness ==
    /\ ChannelsExist
    /\ \E g \in Furnessers : \E a, b \in Areas :
          /\ Len(sent[g][a]) = 2
          /\ Len(sent[g][b]) = 1
          /\ t_pc[b] \in {"optimize", "step", "fun", "jac"}

\* the request/response pairs of an area outstanding at a furness thread
Outstanding(g, a) ==
    Len(putter_qs[g][a]) + Len(getter_qs[g][a]) + (IF Held(g, a) THEN 1 ELSE 0)

\* C7: at most one request/response pair is outstanding per area and furness
\* thread, and no channel holds more than its capacity of one.
AtMostOneOutstanding ==
    ChannelsExist =>
        \A g \in Furnessers : \A a \in Areas :
            /\ Outstanding(g, a) <= 1
            /\ Len(putter_qs[g][a]) <= QueueMaxSize
            /\ Len(getter_qs[g][a]) <= QueueMaxSize

\* after two gravity rounds one area has its reply waiting on the response
\* channel while the other area's jacobian request is held by the jacobian
\* furness thread
AtMostOneOutstandingWitness ==
    /\ ChannelsExist
    /\ Cardinality(Areas) = 2
    /\ Len(round_log["gravity"]) >= 2
    /\ Len(getter_qs["gravity"][1]) = 1
    /\ Held("jacobian", 2)
    /\ Outstanding("gravity", 1) = 1
    /\ Outstanding("jacobian", 2) = 1

\* the FurnessResults of round k for area a, computed from the k-th
\* submissions of all areas
RoundResults(g, k, a) ==
    LET out == doubly_constrained_furness(RoundSeed(g, k), RoundRowTargets(g, k),
                   RoundColTargets(g, k), FurnessTol(g), FurnessMaxIters(g))
    IN [matrix |-> [c \in Cells |->
                       IF calibration_matrix[c] = a THEN out.matrix[c] ELSE 0],
        completed_iters |-> out.completed_iters,
        achieved_rmse |-> out.achieved_rmse]

\* C8: the reply an area gets to its k-th submission is the split, by that
\* area's mask, of the furness of the sum of the k-th submissions of all
\* areas: whenever an area takes a reply off a response channel, its k-th,
\* it is the result of round k for that area.
ReplyIsOfSameRound ==
    [][ChannelsExist =>
          \A g \in Furnessers : \A a \in Areas :
              Len(recv'[g][a]) = Len(recv[g][a]) + 1 =>
                  recv'[g][a][Len(recv'[g][a])] =
                      RoundResults(g, Len(recv[g][a]) + 1, a)]_vars

\* a second reply that differs from the first one and from the other area's
ReplyIsOfSameRoundWitness ==
    /\ ChannelsExist
    /\ Cardinality(Areas) = 2
    /\ Len(recv["gravity"][1]) = 2
    /\ Len(recv["gravity"][2]) = 2
    /\ recv["gravity"][1][2] # recv["gravity"][1][1]
    /\ recv["gravity"][1][2].matrix # recv["gravity"][2][2].matrix
    /\ Len(recv["jacobian"][2]) >= 1

SomeWorkerFailed ==
    \/ \E g \in Furnessers : f_pc[g] = "error"
    \/ \E a \in CalibratorThreads : t_pc[a] = "error"

\* C9: an error of a furness thread or of a calibrator thread surfaces at the
\* wait step: the run never comes to rest after such an error with calibrate
\* still waiting; when nothing can move any more, calibrate has ended with
\* the error.
ErrorsSurfaceAtWait ==
    (SomeWorkerFailed /\ ~ENABLED Next) => (c_pc = "end" /\ c_outcome.kind = "raised")

\* C10: the matrix an area receives is the furnessed matrix of that round at
\* the cells labelled with the area and zero at every other cell, the cells
\* of the ignore value among them; the ignore value is no calibration area:
\* it has no mask, no channel and no thread.
AreaGetsOnlyItsCells ==
    /\ IgnoreCalibAreaValue \notin Areas
    /\ IgnoreCalibAreaValue \notin DOMAIN area_mats
    /\ IgnoreCalibAreaValue \notin CalibratorThreads
    /\ ChannelsExist =>
          \A g \in Furnessers :
              /\ IgnoreCalibAreaValue \notin DOMAIN putter_qs[g]
              /\ IgnoreCalibAreaValue \notin DOMAIN getter_qs[g]
              /\ \A a \in Areas : \A k \in 1..Len(recv[g][a]) : \A c \in Cells :
                    recv[g][a][k].matrix[c] =
                        IF calibration_matrix[c] = a
                        THEN round_log[g][k].furnessed_mat[c]
                        ELSE 0

\* a reply received where the furnessed matrix is not zero at a cell of the
\* ignore value
AreaGetsOnlyItsCellsWitness ==
    /\ ChannelsExist
    /\ \E g \in Furnessers : \E a \in Areas : \E c \in Cells :
          /\ Len(recv[g][a]) >= 1
          /\ calibration_matrix[c] = IgnoreCalibAreaValue
          /\ round_log[g][1].furnessed_mat[c] > 0
          /\ recv[g][a][1].matrix[c] = 0
          /\ \E d \in Cells : recv[g][a][1].matrix[d] > 0

(***************************************************************************)
(* The masks of the calibration areas.                                     *)
(***************************************************************************)
\* the labels whose masks partition the matrix: the areas and the ignore value
MaskLabels == Areas \cup {IgnoreCalibAreaValue}

\* the sum over the labels of furnessed_mat * (calibration_matrix == label)
MergeSplits(furnessed_mat) ==
    [c \in Cells |->
        SumOver([a \in MaskLabels |->
                    SplitMat(furnessed_mat, AreaMat(calibration_matrix, a))[c]],
                MaskLabels)]

\* C11: the masks (calibration_matrix == a) of the calibration areas and of
\* the ignore value are pairwise disjoint and cover every cell, the masks the
\* furness threads use are these, and summing furnessed_mat * mask over all of
\* them gives back the furnessed matrix of every round.
MaskPartitionRoundTrip ==
    ChannelsExist =>
        /\ \A a \in Areas : area_mats[a] = AreaMat(calibration_matrix, a)
        /\ \A c \in Cells :
              Cardinality({a \in MaskLabels : AreaMat(calibration_matrix, a)[c] = 1}) = 1
        /\ \A g \in Furnessers : \A r \in 1..Len(round_log[g]) :
              \A c \in Cells :
                  MergeSplits(round_log[g][r].furnessed_mat)[c] =
                      round_log[g][r].furnessed_mat[c]

\* a round was run over two areas and an ignore cell, and the furnessed
\* matrix is not zero in any of the three regions
MaskPartitionWitness ==
    /\ ChannelsExist
    /\ Cardinality(Areas) = 2
    /\ Len(round_log["gravity"]) >= 1
    /\ \A a \in MaskLabels : \E c \in Cells :
          /\ calibration_matrix[c] = a
          /\ round_log["gravity"][1].furnessed_mat[c] > 0

(***************************************************************************)
(* MultiTLDGravityModelCalibrator.__init__, before calibrate.              *)
(***************************************************************************)
\* the key sets a caller may pass for calibration_naming and for
\* target_cost_distributions
KeySets == { {1, 2}, {1}, {2} }

\* a variant of the key check that accepts every dictionary
AllKeysAccepted(dict_keys, keys) == TRUE

\* checks.all_keys_exist
all_keys_exist(dict_keys, keys) == keys \subseteq dict_keys

\* the arguments of the constructor are chosen; no object exists yet
InitNew ==
    /\ calibration_matrix \in CalibrationMatrices
    /\ calib_areas = <<>>
    /\ running_log_path \in RunningLogPaths
    /\ init_params \in InitParamsInputs
    /\ estimate_init_params \in BOOLEAN
    /\ calibrate_params \in BOOLEAN
    /\ ctor_args \in [calibration_naming : KeySets,
                      target_cost_distributions : KeySets,
                      dir_exists : IF running_log_path = None THEN {TRUE} ELSE BOOLEAN]
    /\ c_pc = "new"
    /\ MultiUnstarted
    /\ SingleIdle
    /\ call = None

\* __init__: the directory of the log path, the attributes, the two key checks
MultiTLDInit ==
    /\ c_pc = "new"
    /\ IF running_log_path # None /\ ~ctor_args.dir_exists
       THEN /\ c_pc' = "end"
            /\ c_outcome' = [kind |-> "raised", error |-> "FileNotFoundError"]
            /\ UNCHANGED calib_areas
       ELSE /\ calib_areas' = CalibAreasOf(calibration_matrix)
            /\ IF \/ ~all_keys_exist(ctor_args.calibration_naming,
                                     SeqToSet(calib_areas'))
                  \/ ~all_keys_exist(ctor_args.target_cost_distributions,
                                     SeqToSet(calib_areas'))
               THEN /\ c_pc' = "end"
                    /\ c_outcome' = [kind |-> "raised", error |-> "ValueError"]
               ELSE /\ c_pc' = "calibrate"
                    /\ UNCHANGED c_outcome
    /\ UNCHANGED <<single_vars, calibration_matrix, running_log_path, init_params,
                   estimate_init_params, calibrate_params, ctor_args, c_idx, area_mats,
                   queue_vars, furness_vars, thread_vars, history_vars>>

NextNew ==
    \/ MultiTLDInit
    \/ Next

SpecNew == InitNew /\ [][NextNew]_vars

\* the arguments name a label of the matrix that a dictionary lacks, or a
\* log path in a directory that does not exist
BadConfiguration ==
    \/ running_log_path # None /\ ~ctor_args.dir_exists
    \/ \E c \in Cells :
          /\ calibration_matrix[c] # IgnoreCalibAreaValue
          /\ \/ calibration_matrix[c] \notin ctor_args.calibration_naming
             \/ calibration_matrix[c] \notin ctor_args.target_cost_distributions

\* C12: a constructor given a label that calibration_naming or
\* target_cost_distributions lacks, or a log path whose directory is
\* missing, raises in __init__, and no channel, mask map, aggregator or
\* area worker is ever created
ConfigurationErrorsAbortConstruction ==
    BadConfiguration =>
        /\ c_pc \in {"new", "end"}
        /\ c_pc = "end" =>
              /\ c_outcome.kind = "raised"
              /\ c_outcome.error \in {"FileNotFoundError", "ValueError"}
              /\ ~ENABLED NextNew
        /\ area_mats = <<>> /\ putter_qs = <<>> /\ getter_qs = <<>>
        /\ \A g \in Furnessers : f_pc[g] = "unstarted"
        /\ t_pc = <<>>

ConfigurationErrorsWitness ==
    /\ c_pc = "end"
    /\ c_outcome.kind = "raised"
    /\ c_outcome.error = "ValueError"
    /\ running_log_path # None
    /\ 2 \in SeqToSet(calib_areas)
    /\ 2 \notin ctor_args.target_cost_distributions
    /\ 2 \in ctor_args.calibration_naming

(***************************************************************************)
(* Properties of the single-area calibrator, continued.                    *)
(***************************************************************************)
\* C13: a GravityModelCalibrator constructed without a running log path
\* runs calibrate, and every residual evaluation completes without raising
LogPathIsOptional ==
    (gm # None /\ gm.running_log_path = None) =>
        /\ \A i \in 1..Len(gm_evals) : ~gm_evals[i].raised
        /\ gm_outcome.kind = "raised" => gm_outcome.error = "validate_params"

(***************************************************************************)
(* gravity_model, the module-level function.                               *)
(***************************************************************************)
\* a variant of the comparison that lets extra names through
CompareSetsIgnoringExtra(a, b) ==
    [equal |-> b \subseteq a, extra |-> a \ b, missing |-> b \ a]

\* du.compare_sets
compare_sets(a, b) == [equal |-> a = b, extra |-> a \ b, missing |-> b \ a]

\* gravity_model: the comparison of the names, the seed, the furness
gravity_model(row_targets, col_targets, costs, max_iters, tol, cost_params) ==
    LET cmp == compare_sets(DOMAIN cost_params, ParamNames)
    IN IF ~cmp.equal
       THEN [kind |-> "raised", error |-> "TypeError", extra |-> cmp.extra,
             missing |-> cmp.missing, init_matrix |-> None, furness |-> None]
       ELSE LET init_matrix == CostFunctionCalculate(costs, cost_params)
                furness == doubly_constrained_furness(init_matrix, row_targets,
                               col_targets, tol, max_iters)
            IN [kind |-> "returned", value |-> furness, init_matrix |-> init_matrix,
                furness |-> furness]

\* the cost_params a caller may pass to gravity_model
CostParamsInputs ==
    { [alpha |-> 1, beta |-> 1], [alpha |-> 0, beta |-> 1], [alpha |-> 1],
      [beta |-> 1, gamma |-> 1], [alpha |-> 1, beta |-> 1, gamma |-> 1] }

\* no coordinator is constructed
MultiIdle ==
    /\ calibration_matrix = None
    /\ calib_areas = <<>>
    /\ running_log_path = None
    /\ init_params = None
    /\ estimate_init_params = FALSE
    /\ calibrate_params = FALSE
    /\ ctor_args = None
    /\ c_pc = "idle"
    /\ MultiUnstarted

\* gravity_model is about to be called; no calibrator is constructed
InitGravityModel ==
    /\ call \in [fn : {"gravity_model"}, cost_params : CostParamsInputs,
                 outcome : {[kind |-> "running"]}]
    /\ MultiIdle
    /\ SingleIdle

\* one call of gravity_model
GravityModel ==
    /\ call # None
    /\ call.fn = "gravity_model"
    /\ call.outcome.kind = "running"
    /\ call' = [call EXCEPT !.outcome =
                   gravity_model(RowTargetsInput, ColTargetsInput, CostMatrixInput,
                                 FurnessInput.furness_max_iters,
                                 FurnessInput.furness_tol, call.cost_params)]
    /\ UNCHANGED <<multi_vars, use_perceived_factors, target_convergence,
                   gm_init_params, gm_estimate_init_params, gm_calibrate_params,
                   gm, gm_pc, gm_pass, gm_x0, gm_outcome, gm_warnings, gm_args,
                   gm_opt_x, gm_nfev, gm_final, gm_jacobian, gm_evals, gm_computed>>

\* the three entry points that take a cost-parameter dictionary
InitParams == Init \/ InitCal \/ InitGravityModel

NextParams ==
    \/ Next
    \/ NextCal
    \/ GravityModel

SpecParams == InitParams /\ [][NextParams]_vars

\* C14: a cost-parameter dictionary whose keys differ from the declared
\* names is rejected before any work: gravity_model raises TypeError naming
\* the extra and the missing names with no seed and no furness computed, and
\* both calibrate methods raise from validate_params with no residual
\* evaluation, log append, channel, worker or changed attribute
MismatchedParamsRejectedFirst ==
    /\ (call # None /\ DOMAIN call.cost_params # ParamNames
           /\ call.outcome.kind # "running") =>
          /\ call.outcome.kind = "raised"
          /\ call.outcome.error = "TypeError"
          /\ call.outcome.extra = DOMAIN call.cost_params \ ParamNames
          /\ call.outcome.missing = ParamNames \ DOMAIN call.cost_params
          /\ call.outcome.init_matrix = None
          /\ call.outcome.furness = None
    /\ (gm # None /\ DOMAIN gm_init_params # ParamNames) =>
          /\ gm_pc \in {"calibrate", "end"}
          /\ gm_pc = "end" => gm_outcome = [kind |-> "raised", error |-> "validate_params"]
          /\ gm_evals = <<>>
          /\ gm.log_file \in {NoFile, ExistingFile}
          /\ gm = GravityModelBaseInit(CostMatrixInput, TargetCostDistributionsInput(1),
                                       gm.running_log_path, gm.log_file)
    /\ (c_pc # "idle" /\ DOMAIN init_params # ParamNames) =>
          /\ c_pc \in {"calibrate", "end"}
          /\ c_pc = "end" => c_outcome = [kind |-> "raised", error |-> "validate_params"]
          /\ area_mats = <<>> /\ putter_qs = <<>> /\ getter_qs = <<>>
          /\ \A g \in Furnessers : f_pc[g] = "unstarted"
          /\ t_pc = <<>> /\ sent = <<>>

\* each entry point has rejected a mismatched dictionary
GravityModelRejectedWitness ==
    /\ call # None
    /\ call.outcome.kind = "raised"
    /\ call.outcome.extra = {"gamma"}
    /\ call.outcome.missing = {"alpha"}

\* C15: with a log path and a valid dictionary, calibrate ends on every
\* path by returning optimal_cost_params with achieved_band_share,
\* achieved_convergence, achieved_residuals and achieved_distribution set; a
\* convergence below the lower limit, or below the target after the second
\* pass, adds one warning and nothing else
ConvergenceShortfallsNeverAbort ==
    (gm # None /\ gm.running_log_path # None /\ DOMAIN gm_init_params = ParamNames
        /\ gm_pc = "end") =>
        /\ gm_outcome.kind = "returned"
        /\ gm.optimal_cost_params # None
        /\ gm_outcome.value = gm.optimal_cost_params
        /\ gm.achieved_band_share # None
        /\ gm.achieved_convergence # None
        /\ gm.achieved_residuals # None
        /\ gm.achieved_distribution # None
        /\ LET achieved == TheVal(gm.achieved_convergence)
           IN gm_warnings =
                 IF gm_pass = 2
                 THEN IF achieved < target_convergence
                      THEN <<"target_convergence not reached">> ELSE <<>>
                 ELSE IF /\ use_perceived_factors
                         /\ achieved <= UpperLimit(target_convergence)
                         /\ achieved < LowerLimit(target_convergence)
                      THEN <<"lower threshold not reached">> ELSE <<>>

ConvergenceShortfallWitness ==
    /\ gm # None
    /\ gm_pc = "end"
    /\ gm_outcome.kind = "returned"
    /\ gm_pass = 2
    /\ gm_warnings = <<"target_convergence not reached">>
    /\ TheVal(gm.achieved_convergence) < target_convergence

\* C16: the running log is append-only: a residual evaluation that completes
\* adds exactly one data row, preceded by the header row only when the file
\* did not exist; no other step touches the file; the lines already in the
\* file, those of a file older than the calibrator included, stay as they are
RunningLogIsAppendOnly ==
    [][(gm # None /\ gm.running_log_path # None) =>
          LET old == gm.log_file
              new == gm'.log_file
              evaluated == Len(gm_evals') = Len(gm_evals) + 1
              added == SubSeq(new.lines, Len(old.lines) + 1, Len(new.lines))
          IN /\ Len(new.lines) >= Len(old.lines)
             /\ SubSeq(new.lines, 1, Len(old.lines)) = old.lines
             /\ ~evaluated => new = old
             /\ evaluated =>
                   /\ new.exists
                   /\ Len(added) = IF old.exists THEN 1 ELSE 2
                   /\ ~old.exists => added[1] = HeaderRow
                   /\ LET row == added[Len(added)]
                      IN /\ row # HeaderRow
                         /\ row.loop_number = gm.loop_num
                         /\ row.params = cost_params_to_kwargs(gm_args)]_vars

\* two rows were appended to a file that existed before the calibrator
RunningLogWitness ==
    /\ gm # None
    /\ gm.running_log_path # None
    /\ Len(gm.log_file.lines) = Len(ExistingFile.lines) + 2
    /\ SubSeq(gm.log_file.lines, 1, Len(ExistingFile.lines)) = ExistingFile.lines
    /\ Len(gm_evals) = 2

(***************************************************************************)
(* The cost utilities, called on their own.                                *)
(***************************************************************************)
\* everything but the call of a module-level function
object_vars == <<multi_vars, use_perceived_factors, target_convergence, gm_init_params,
                 gm_estimate_init_params, gm_calibrate_params, gm, gm_pc, gm_pass,
                 gm_x0, gm_outcome, gm_warnings, gm_args, gm_opt_x, gm_nfev, gm_final,
                 gm_jacobian, gm_evals, gm_computed>>

\* the weights of a cell, the cost matrices and the three ways to give the
\* bands to calculate_cost_distribution
WeightValues == {0, 1, 2}
WeightMatrices == { Mat(a, b, c, d) : a \in WeightValues, b \in WeightValues,
                                      c \in WeightValues, d \in WeightValues }
CostMatrices == { CostMatrixInput, Mat(1, 3, 7, 5) }
BoundsInputs ==
    { [bin_edges |-> <<0, 3, 5>>, min_bounds |-> None, max_bounds |-> None],
      [bin_edges |-> None, min_bounds |-> <<2, 4>>, max_bounds |-> <<4, 6>>],
      [bin_edges |-> None, min_bounds |-> <<2, 4>>, max_bounds |-> None] }

CostDistributionCalls ==
    [fn : {"calculate_cost_distribution"}, matrix : WeightMatrices,
     cost_matrix : CostMatrices, bounds : BoundsInputs,
     outcome : {[kind |-> "running"]}]

\* a variant whose bands include their upper bound
AverageCostInClosedBounds(min_bounds, max_bounds, cost_matrix, trips) ==
    [i \in 1..Len(min_bounds) |->
        LET in_band == {c \in Cells : /\ cost_matrix[c] >= min_bounds[i]
                                       /\ cost_matrix[c] <= max_bounds[i]}
            band_distance == SumOver([c \in in_band |-> trips[c] * cost_matrix[c]],
                                     in_band)
            band_trips == SumOver([c \in in_band |-> trips[c]], in_band)
        IN IF band_trips = 0 THEN [num |-> min_bounds[i], den |-> 1]
           ELSE [num |-> band_distance, den |-> band_trips]]

\* cost_utils.calculate_average_cost_in_bounds; an average is num / den
calculate_average_cost_in_bounds(min_bounds, max_bounds, cost_matrix, trips) ==
    [i \in 1..(IF Len(min_bounds) < Len(max_bounds) THEN Len(min_bounds)
                ELSE Len(max_bounds)) |->
        LET band_mask == [c \in Cells |->
                             IF /\ cost_matrix[c] >= min_bounds[i]
                                /\ cost_matrix[c] < max_bounds[i] THEN 1 ELSE 0]
            band_distance == SumOver([c \in Cells |->
                                 trips[c] * band_mask[c] * cost_matrix[c]], Cells)
            band_trips == SumOver([c \in Cells |-> trips[c] * band_mask[c]], Cells)
        IN IF band_trips = 0 THEN [num |-> min_bounds[i], den |-> 1]
           ELSE [num |-> band_distance, den |-> band_trips]]

AverageCostCalls ==
    [fn : {"calculate_average_cost_in_bounds"},
     bounds : { [min_bounds |-> <<0, 3>>, max_bounds |-> <<3, 5>>],
                [min_bounds |-> <<2, 4>>, max_bounds |-> <<4, 6>>] },
     cost_matrix : CostMatrices, trips : WeightMatrices,
     outcome : {[kind |-> "running"]}]

\* the trips of the two target bands and of the two achieved bands
BandTrips == { <<a, b>> : a \in {0, 1, 4}, b \in {0, 1, 4} }

PerceivedFactorCalls ==
    [fn : {"_calculate_perceived_factors"}, target : BandTrips \ {<<0, 0>>},
     achieved : BandTrips, cost_matrix : CostMatrices,
     outcome : {[kind |-> "running"]}]

\* a utility is about to be called; no calibrator is constructed
InitUtils ==
    /\ call \in CostDistributionCalls \cup AverageCostCalls \cup PerceivedFactorCalls
    /\ MultiIdle
    /\ SingleIdle

\* the bin edges calculate_cost_distribution ends up with
BinEdgesOf(bounds) ==
    IF bounds.bin_edges # None THEN bounds.bin_edges
    ELSE <<bounds.min_bounds[1]>> \o bounds.max_bounds

\* one call of calculate_cost_distribution
CalculateCostDistribution ==
    /\ call # None
    /\ call.fn = "calculate_cost_distribution"
    /\ call.outcome.kind = "running"
    /\ call' = [call EXCEPT !.outcome =
          IF /\ call.bounds.bin_edges = None
             /\ (call.bounds.min_bounds = None \/ call.bounds.max_bounds = None)
          THEN [kind |-> "raised", error |-> "ValueError"]
          ELSE [kind |-> "returned",
                value |-> calculate_cost_distribution(call.matrix, call.cost_matrix,
                                                      BinEdgesOf(call.bounds))]]
    /\ UNCHANGED object_vars

\* one call of calculate_average_cost_in_bounds
CalculateAverageCostInBounds ==
    /\ call # None
    /\ call.fn = "calculate_average_cost_in_bounds"
    /\ call.outcome.kind = "running"
    /\ call' = [call EXCEPT !.outcome =
          [kind |-> "returned",
           value |-> calculate_average_cost_in_bounds(call.bounds.min_bounds,
                         call.bounds.max_bounds, call.cost_matrix, call.trips)]]
    /\ UNCHANGED object_vars

\* the calibrator _calculate_perceived_factors runs on: the target bands
\* [0, 3) and [3, 5) and the band shares of the latest residual evaluation
PerceivedFactorsObject(target, achieved, cost_matrix) ==
    [GravityModelBaseInit(cost_matrix,
                          <<Band(0, 3, target[1]), Band(3, 5, target[2])>>,
                          None, NoFile)
        EXCEPT !.achieved_band_share =
            IF achieved[1] + achieved[2] = 0 THEN [num |-> <<0, 0>>, den |-> 1]
            ELSE [num |-> achieved, den |-> achieved[1] + achieved[2]]]

\* one call of _calculate_perceived_factors
CalculatePerceivedFactors ==
    /\ call # None
    /\ call.fn = "_calculate_perceived_factors"
    /\ call.outcome.kind = "running"
    /\ LET o == PerceivedFactorsObject(call.target, call.achieved, call.cost_matrix)
       IN call' = [call EXCEPT !.outcome =
             [kind |-> "returned",
              perc_factors |->
                  [i \in 1..2 |-> PercFactor(o.achieved_band_share,
                                      o.target_cost_distribution.band_share, i)],
              value |-> calculate_perceived_factors(o).perceived_factors]]
    /\ UNCHANGED object_vars

NextUtils ==
    \/ CalculateCostDistribution
    \/ CalculateAverageCostInBounds
    \/ CalculatePerceivedFactors

SpecUtils == InitUtils /\ [][NextUtils]_vars

CostDistributionReturned ==
    /\ call # None
    /\ call.fn = "calculate_cost_distribution"
    /\ call.outcome.kind = "returned"

\* the weight that falls between the first and the last bin edge
WeightInBands ==
    LET edges == BinEdgesOf(call.bounds)
    IN SumOver([c \in Cells |->
                   IF /\ edges[1] <= call.cost_matrix[c]
                      /\ call.cost_matrix[c] <= edges[Len(edges)]
                   THEN call.matrix[c] ELSE 0], Cells)

\* C17, as stated: the band shares of every weight matrix that is not all
\* zero sum to 1, those of an all-zero matrix are all zero, and nothing is
\* divided by zero
BandSharesSumToOne ==
    CostDistributionReturned =>
        LET shares == call.outcome.value
        IN /\ shares.den # 0
           /\ IF \E c \in Cells : call.matrix[c] # 0
              THEN SeqSum(shares.num) = shares.den
              ELSE \A b \in DOMAIN shares.num : shares.num[b] = 0

\* C17, amended: the band shares sum to 1 when the weight that falls
\* between the first and the last bin edge is not zero, and are all zero
\* when it is; nothing is divided by zero
BandSharesSumToOneInBands ==
    CostDistributionReturned =>
        LET shares == call.outcome.value
        IN /\ shares.den # 0
           /\ Len(shares.num) = Len(BinEdgesOf(call.bounds)) - 1
           /\ IF WeightInBands # 0
              THEN SeqSum(shares.num) = shares.den
              ELSE \A b \in DOMAIN shares.num : shares.num[b] = 0

\* some weight lies outside the bands and the shares still sum to 1
BandSharesWitness ==
    /\ CostDistributionReturned
    /\ WeightInBands # 0
    /\ WeightInBands # MatSum(call.matrix)
    /\ SeqSum(call.outcome.value.num) = call.outcome.value.den

AverageCostReturned ==
    /\ call # None
    /\ call.fn = "calculate_average_cost_in_bounds"
    /\ call.outcome.kind = "returned"

\* the cells whose cost is in band i of the call
CellsInBand(i) ==
    {c \in Cells : /\ call.bounds.min_bounds[i] <= call.cost_matrix[c]
                    /\ call.cost_matrix[c] < call.bounds.max_bounds[i]}

\* C18: the average cost of a band [min, max) without trips is the band's
\* min; the average of a band with trips is the trip-weighted mean of the
\* costs of its cells, and lies in [min, max)
AverageCostInBand ==
    AverageCostReturned =>
        /\ Len(call.outcome.value) = Len(call.bounds.min_bounds)
        /\ \A i \in DOMAIN call.outcome.value :
              LET average == call.outcome.value[i]
                  cells == CellsInBand(i)
                  band_trips == SumOver([c \in cells |-> call.trips[c]], cells)
                  band_cost == SumOver([c \in cells |->
                                   call.trips[c] * call.cost_matrix[c]], cells)
              IN IF band_trips = 0
                 THEN average = [num |-> call.bounds.min_bounds[i], den |-> 1]
                 ELSE /\ average.den > 0
                      /\ average.num * band_trips = band_cost * average.den
                      /\ call.bounds.min_bounds[i] * average.den <= average.num
                      /\ average.num < call.bounds.max_bounds[i] * average.den

\* one band has no trips, the other has trips at two different costs
AverageCostWitness ==
    /\ AverageCostReturned
    /\ \E i, j \in DOMAIN call.outcome.value :
          /\ \A c \in CellsInBand(i) : call.trips[c] = 0
          /\ call.outcome.value[i].num = call.bounds.min_bounds[i]
          /\ \E c, d \in CellsInBand(j) :
                /\ call.cost_matrix[c] # call.cost_matrix[d]
                /\ call.trips[c] > 0 /\ call.trips[d] > 0
          /\ call.outcome.value[j].num >
                call.bounds.min_bounds[j] * call.outcome.value[j].den

PerceivedFactorsReturned ==
    /\ call # None
    /\ call.fn = "_calculate_perceived_factors"
    /\ call.outcome.kind = "returned"

\* C19: every per-band factor of _calculate_perceived_factors is in
\* [0.5, 2.0]; every cell of the factor matrix is in [0.5, 2.0]: a cell whose
\* cost is in no band, or in a band of target share zero, keeps 1, and a cell
\* in a band takes the band's factor
PerceivedFactorsBounded ==
    PerceivedFactorsReturned =>
        LET bands == <<[min |-> 0, max |-> 3], [min |-> 3, max |-> 5]>>
            factors == call.outcome.perc_factors
            mat == call.outcome.value
        IN /\ \A i \in 1..2 : 50 <= factors[i] /\ factors[i] <= 200
           /\ \A c \in Cells :
                 /\ 50 <= mat[c] /\ mat[c] <= 200
                 /\ (\A i \in 1..2 : \/ call.cost_matrix[c] < bands[i].min
                                      \/ call.cost_matrix[c] >= bands[i].max
                                      \/ call.target[i] = 0) => mat[c] = 100
                 /\ \A i \in 1..2 :
                       (/\ bands[i].min <= call.cost_matrix[c]
                        /\ call.cost_matrix[c] < bands[i].max) => mat[c] = factors[i]

\* both clips act, and a cell outside every band keeps 1
PerceivedFactorsWitness ==
    /\ PerceivedFactorsReturned
    /\ call.outcome.perc_factors = <<200, 50>>
    /\ call.achieved[1] * (call.target[1] + call.target[2]) >
           4 * call.target[1] * (call.achieved[1] + call.achieved[2])
    /\ call.achieved[2] = 0
    /\ \E c \in Cells : call.cost_matrix[c] >= 5 /\ call.outcome.value[c] = 100
    /\ \E c \in Cells : call.outcome.value[c] = 200

\* the residual evaluations of one _calibrate
EvalsOfPass(p) == SelectSeq(gm_evals, LAMBDA e : e.pass = p)

\* the _calibrate of pass p has made its last residual evaluation
PassIsOver(p) ==
    \/ gm_pass > p
    \/ gm_pass = p /\ gm_pc \in {"optimize", "jac", "step", "decide", "finish", "end"}

\* calibrate runs without calibrating, on a valid dictionary; the optimizer
\* is not running, and every pass makes one residual evaluation, at params
NotCalibratingAt(params) ==
    /\ gm_pc \notin {"optimize", "jac", "step"}
    /\ gm_nfev = 0
    /\ gm_jacobian = <<>>
    /\ \A i \in 1..Len(gm_evals) :
          /\ gm_evals[i].final
          /\ gm_evals[i].cost_args = <<params.alpha, params.beta>>
    /\ \A p \in 1..2 :
          /\ Len(EvalsOfPass(p)) <= 1
          /\ (PassIsOver(p) /\ gm_pass >= p) => Len(EvalsOfPass(p)) = 1
    /\ gm_outcome.kind = "returned" =>
          /\ DOMAIN gm_outcome.value = ParamNames
          /\ \A k \in ParamNames : gm_outcome.value[k] = params[k]

RunStages == <<"run_upper_model", "run_lower_model", "run_pa_matrix_reports",
               "run_pa_to_od", "run_pa_split_by_tp", "run_od_matrix_reports">>

\* run is about to be called with any flags; stage counts the if statements
\* passed, ran lists the stage methods called
InitRun ==
    /\ call \in [fn : {"DistributionModel.run"}, run_all : BOOLEAN,
                 flags : [SeqToSet(RunStages) -> BOOLEAN], stage : {0},
                 ran : {<<>>}, outcome : {[kind |-> "running"]}]
    /\ MultiIdle
    /\ SingleIdle

\* run: "Determine which models to run"
RunDetermine ==
    /\ call # None
    /\ call.fn = "DistributionModel.run"
    /\ call.stage = 0
    /\ call' = [call EXCEPT
          !.stage = 1,
          !.flags = IF call.run_all
                    THEN [call.flags EXCEPT !["run_upper_model"] = TRUE,
                                            !["run_lower_model"] = TRUE,
                                            !["run_pa_matrix_reports"] = TRUE,
                                            !["run_pa_to_od"] = TRUE,
                                            !["run_od_matrix_reports"] = TRUE]
                    ELSE call.flags]
    /\ UNCHANGED object_vars

\* run: "if run_<stage>: self.run_<stage>()", and the return after the last
RunStage(i) ==
    /\ call # None
    /\ call.fn = "DistributionModel.run"
    /\ call.stage = i
    /\ call' = [call EXCEPT
          !.stage = i + 1,
          !.ran = IF call.flags[RunStages[i]] THEN Append(@, RunStages[i]) ELSE @,
          !.outcome = IF i = Len(RunStages)
                      THEN [kind |-> "returned", value |-> None] ELSE @]
    /\ UNCHANGED object_vars

NextRun ==
    \/ RunDetermine
    \/ \E i \in 1..Len(RunStages) : RunStage(i)

SpecRun == InitRun /\ [][NextRun]_vars

\* C21: run with run_all = True has called, when it returns, every stage
\* method, in the order upper model, lower model, PA matrix reports, PA to
\* OD, PA split by time period, OD matrix reports, whatever the other flags
RunAllRunsEveryStage ==
    (call # None /\ call.fn = "DistributionModel.run" /\ call.run_all
        /\ call.outcome.kind = "returned") =>
        call.ran = RunStages

\* the achieved convergence lies in the window of the perceived factors
InWindow ==
    /\ target_convergence - 15 <= TheVal(gm.achieved_convergence)
    /\ TheVal(gm.achieved_convergence) <= target_convergence + 3

\* C22: after the first pass, calibrate runs the optimize step again, once,
\* exactly when use_perceived_factors is set and target - 0.15 <= achieved
\* <= target + 0.03; otherwise it returns after the one pass and the factor
\* matrix is never computed; no other step starts a pass or computes factors
SecondPassOnlyInWindow ==
    [][/\ gm_pc = "decide" =>
             IF use_perceived_factors /\ InWindow
             THEN /\ gm_pc' = "pass"
                  /\ gm_pass = 1 /\ gm_pass' = 2
                  /\ gm_computed = None /\ gm_computed' # None
             ELSE /\ gm_pc' = "end"
                  /\ gm_outcome'.kind = "returned"
                  /\ gm_pass = 1 /\ gm_pass' = 1
                  /\ gm_computed' = None
                  /\ gm'.perceived_factors = gm.perceived_factors
       /\ gm_pc # "decide" => (gm_pass' = gm_pass /\ gm_computed' = gm_computed)
       /\ (gm_pc' = "pass" /\ gm_pc # "pass") => gm_pc \in {"calibrate", "decide"}
       /\ gm_pc = "finish" => (gm_pc' = "end" /\ gm_pass = 2)]_vars

\* both ends of the window were met: a second pass ran with the achieved
\* convergence of the first pass at target + 0.03, and at target - 0.15
SecondPassWitness ==
    /\ gm # None
    /\ gm_pass = 2
    /\ gm_pc = "pass"
    /\ gm_computed # None
    /\ \/ TheVal(gm.achieved_convergence) = target_convergence + 3
       \/ TheVal(gm.achieved_convergence) = target_convergence - 15

\* a _calibrate has returned to calibrate
PassEnded ==
    /\ gm # None
    /\ \/ gm_pc \in {"decide", "finish"}
       \/ gm_pc = "end" /\ gm_outcome.kind = "returned"

\* C23: when a pass has ended, its last residual evaluation is the only one
\* made after the optimizer, it is at optimal_cost_params, and
\* achieved_distribution, achieved_band_share, achieved_convergence and
\* achieved_residuals are what the gravity model gives at optimal_cost_params
PassEndsAtOptimalParams ==
    PassEnded =>
        LET evals == EvalsOfPass(gm_pass)
            last == gm_evals[Len(gm_evals)]
            seed == CostFunctionCalculate(apply_perceived_factors(gm, gm.cost_matrix),
                                          gm.optimal_cost_params)
            matrix == gravity_furness(seed, RowTargetsInput, ColTargetsInput).matrix
            shares == calculate_cost_distribution(matrix, gm.cost_matrix,
                                                  gm.tcd_bin_edges)
            target == gm.target_cost_distribution.band_share
        IN /\ last = evals[Len(evals)]
           /\ last.final
           /\ Len(SelectSeq(evals, LAMBDA e : e.final)) = 1
           /\ gm_calibrate_params => Len(evals) >= 2
           /\ \A k \in ParamNames :
                 gm.optimal_cost_params[k] =
                     last.cost_args[CHOOSE i \in 1..Len(kw_order) : kw_order[i] = k]
           /\ gm.achieved_distribution = matrix
           /\ gm.achieved_band_share = shares
           /\ gm.achieved_convergence = Some(curve_convergence(target, shares))
           /\ gm.achieved_residuals = ShareDiff(target, shares)

\* the optimizer tried a vector after the one it kept, and the pass ended
PassEndsWitness ==
    /\ PassEnded
    /\ gm_calibrate_params
    /\ Len(gm_evals) >= 3
    /\ gm_evals[Len(gm_evals) - 1].cost_args # gm_evals[Len(gm_evals)].cost_args
    /\ gm.achieved_distribution # None

(***************************************************************************)
(* Properties of the multi-area coordinator, continued.                    *)
(***************************************************************************)
\* C24: in every round of the jacobian furness thread the row and column
\* targets of the furness are the zone-wise sums, over all areas, of the
\* targets in the requests of that round; the gravity furness thread uses
\* its own row_targets and col_targets in every round
JacobianTargetsAreSummed ==
    ChannelsExist =>
        /\ \A r \in 1..Len(round_log["jacobian"]) :
              LET round == round_log["jacobian"][r]
              IN \A z \in Zones :
                    /\ round.row_targets[z] =
                          SumOver([a \in Areas |-> round.inputs[a].row_targets[z]], Areas)
                    /\ round.col_targets[z] =
                          SumOver([a \in Areas |-> round.inputs[a].col_targets[z]], Areas)
        /\ \A r \in 1..Len(round_log["gravity"]) :
              /\ round_log["gravity"][r].row_targets = RowTargetsInput
              /\ round_log["gravity"][r].col_targets = ColTargetsInput

\* a jacobian round of two areas that both asked for non-zero targets
JacobianTargetsWitness ==
    /\ ChannelsExist
    /\ Cardinality(Areas) = 2
    /\ Len(round_log["jacobian"]) >= 1
    /\ \A a \in Areas : \E z \in Zones :
          round_log["jacobian"][1].inputs[a].row_targets[z] > 0
    /\ round_log["jacobian"][1].row_targets # RowTargetsInput

\* every calibrator thread has returned or raised
AllWorkersEnded ==
    /\ ChannelsExist
    /\ c_pc \in {"wait", "end"}
    /\ \A a \in Areas : Ended(a)

\* C25: a furness thread never leaves its loop by itself: once every
\* calibrator thread has ended, both furness threads are in _get_q_data at
\* the start of a round, waiting for every area, and they stay there; the
\* step that ends _threaded_calibrate changes neither the furness threads
\* nor the channels
FurnessThreadsOutliveCalibrators ==
    [][/\ AllWorkersEnded' =>
              \A g \in Furnessers :
                  /\ f_pc'[g] = "collect"
                  /\ need_area_keys'[g] = Areas
                  /\ \A a \in Areas : queue_data'[g][a] = None
       /\ AllWorkersEnded => UNCHANGED furness_vars
       /\ (c_pc = "wait" /\ c_pc' = "end") => UNCHANGED <<queue_vars, furness_vars>>]_vars

\* calibrate has ended with every calibrator thread returned, after both
\* furness threads answered at least one round
FurnessThreadsOutliveWitness ==
    /\ AllWorkersEnded
    /\ c_pc = "end"
    /\ c_outcome = [kind |-> "raised", error |-> "SystemExit"]
    /\ \A a \in Areas : t_pc[a] = "done"
    /\ \A g \in Furnessers : Len(round_log[g]) >= 1 /\ f_pc[g] = "collect"

\* C26: for each furness thread, the numbers of replies any two calibrator
\* threads have taken from it differ by at most one
RepliesInLockStep ==
    ChannelsExist =>
        \A g \in Furnessers : \A a \in Areas : \A b \in Areas :
            Len(recv[g][a]) - Len(recv[g][b]) <= 1

\* one area has taken its second gravity reply while the other area, which
\* has asked for it too, has taken one; both have been through a jacobian
RepliesInLockStepWitness ==
    /\ ChannelsExist
    /\ Cardinality(Areas) = 2
    /\ \E a \in Areas : \E b \in Areas :
          /\ Len(recv["gravity"][a]) = 2
          /\ Len(recv["gravity"][b]) = 1
          /\ Len(recv["jacobian"][a]) >= 1
          /\ Len(recv["jacobian"][b]) >= 1

\* C27: while a furness thread is in its put loop, the response channel of
\* the area it is about to answer, and of every area after it, is empty: the
\* put never waits, whichever replies of the round have been taken already
PutNeverBlocks ==
    ChannelsExist =>
        \A g \in Furnessers :
            f_pc[g] = "put" =>
                /\ \A i \in f_idx[g]..Len(calib_areas) : Len(getter_qs[g][calib_areas[i]]) = 0
                /\ ENABLED PutFurnessResults(g)

\* in its second round the gravity furness thread is about to answer the
\* second area while the first area has not taken its reply
PutNeverBlocksWitness ==
    /\ ChannelsExist
    /\ Cardinality(Areas) = 2
    /\ f_pc["gravity"] = "put"
    /\ f_idx["gravity"] = 2
    /\ Len(round_log["gravity"]) >= 2
    /\ Len(getter_qs["gravity"][calib_areas[1]]) = 1

\* the residual evaluations a calibrator thread has begun
EvaluationsBegun(a) ==
    nfev[a] + (IF \/ t_pc[a] \in {"fun_wait", "done"}
                  \/ t_pc[a] = "error" /\ t_error[a] = "TypeError: os.path.exists"
               THEN 1 ELSE 0)

\* C28: a calibrator thread has sent one gravity request per residual
\* evaluation it has begun, and one jacobian request per cost parameter, in
\* kw_order, of each Jacobian evaluation; a request is unanswered exactly
\* while the thread waits for its reply, so the next request follows the
\* reply to the last one, and no thread has a request or a reply pending at
\* both furness threads
OneRequestAtATime ==
    ChannelsExist =>
        \A a \in Areas :
            /\ Len(sent["gravity"][a]) = EvaluationsBegun(a)
            /\ Len(sent["gravity"][a]) =
                   Len(recv["gravity"][a]) + (IF t_pc[a] = "fun_wait" THEN 1 ELSE 0)
            /\ Len(sent["jacobian"][a]) =
                   Len(recv["jacobian"][a]) + (IF t_pc[a] = "jac_wait" THEN 1 ELSE 0)
            /\ Len(recv["jacobian"][a]) % Len(kw_order) =
                   (IF t_pc[a] \in {"jac", "jac_wait"} THEN jac_i[a] - 1 ELSE 0)
            /\ t_pc[a] \in {"jac", "jac_wait"} =>
                   LET n == Len(sent["jacobian"][a])
                       k == n % Len(kw_order)
                       first == IF k = 0 /\ t_pc[a] = "jac_wait" THEN n - Len(kw_order) ELSE n - k
                   IN \A i \in 1..(n - first) :
                          sent["jacobian"][a][first + i] = JacobianRequest(t_obj[a], kw_order[i])
            /\ ~(Outstanding("gravity", a) > 0 /\ Outstanding("jacobian", a) > 0)

\* a thread waits for the reply to the request of the last cost parameter of
\* its first Jacobian, after one residual evaluation
OneRequestAtATimeWitness ==
    /\ ChannelsExist
    /\ \E a \in Areas :
          /\ t_pc[a] = "jac_wait"
          /\ jac_i[a] = Len(kw_order)
          /\ Len(sent["jacobian"][a]) = Len(kw_order)
          /\ Len(sent["gravity"][a]) = 1
          /\ Outstanding("jacobian", a) = 1
          /\ Outstanding("gravity", a) = 0

\* C29: in every round of the gravity furness thread the seed matrix an area
\* submitted is zero outside the area's mask, so that the summed seed holds,
\* at a cell of area a, the value area a submitted for it, and zero at the
\* cells labelled with the ignore value
GlobalSeedIsPerArea ==
    ChannelsExist =>
        \A r \in 1..Len(round_log["gravity"]) :
            LET round == round_log["gravity"][r]
            IN \A c \in Cells :
                  /\ \A a \in Areas :
                        /\ area_mats[a][c] = 0 => round.inputs[a][c] = 0
                        /\ area_mats[a][c] = 1 => round.seed_mat[c] = round.inputs[a][c]
                  /\ calibration_matrix[c] = IgnoreCalibAreaValue => round.seed_mat[c] = 0

(***************************************************************************)
(* Properties of the utilities, continued.                                 *)
(***************************************************************************)
\* calculate_cost_distribution puts a cell of cost_matrix in band i
HistogramBandOf(cost_matrix, bin_edges, c, i) ==
    calculate_cost_distribution(Eager([d \in Cells |-> IF d = c THEN 1 ELSE 0]),
                                cost_matrix, bin_edges).num[i] = 1

\* C30: the band calculate_cost_distribution counts a cell in is the band
\* whose mask min <= cost < max selects the cell in
\* calculate_average_cost_in_bounds and in _calculate_perceived_factors, also
\* for a cost equal to the max of the last band: the average of a band is
\* taken over the trips the histogram counts in it, and a cell takes the
\* factor of the band the histogram counts it in
BandMembershipConsistent ==
    /\ AverageCostReturned =>
          LET bin_edges == <<call.bounds.min_bounds[1]>> \o call.bounds.max_bounds
              distribution == calculate_cost_distribution(call.trips, call.cost_matrix,
                                                          bin_edges)
          IN \A i \in DOMAIN call.outcome.value :
                IF distribution.num[i] = 0
                THEN call.outcome.value[i] = [num |-> call.bounds.min_bounds[i], den |-> 1]
                ELSE call.outcome.value[i].den = distribution.num[i]
    /\ PerceivedFactorsReturned =>
          LET o == PerceivedFactorsObject(call.target, call.achieved, call.cost_matrix)
          IN \A c \in Cells : \A i \in 1..2 :
                HistogramBandOf(call.cost_matrix, o.tcd_bin_edges, c, i) =>
                    call.outcome.value[c] = call.outcome.perc_factors[i]

====
